---- MODULE Spec2Model ----
(***************************************************************************)
(* A model of simple_ai_chat.py: the keyword-driven question answering     *)
(* over one or two pandas DataFrames (generate_response and its handlers)  *)
(* and the Streamlit chat front end that stores the conversation.          *)
(*                                                                         *)
(* Text is modelled character by character: a Python str is a sequence of  *)
(* one-character strings, so that substring tests, lower(), strip() and    *)
(* the regular-expression word boundary \b are computed and not assumed.   *)
(* A DataFrame is a record of its column labels (in order), the dtype of   *)
(* each column and its rows; a cell is a string, a number, a timestamp or  *)
(* the missing value NaN (None, NaN and NaT are all "null" to pandas).     *)
(***************************************************************************)
EXTENDS Integers, Sequences, FiniteSets, TLC

VARIABLES
    context_df,      \* the caller's main DataFrame, or None
    unmatching_df,   \* the caller's second DataFrame, or None
    session_state,   \* st.session_state: chat key -> list of turns
    rerun,           \* the role hint of the chat whose st.rerun() is pending, or "none"
    call             \* what the last call of generate_response did

vars == <<context_df, unmatching_df, session_state, rerun, call>>

(***************************************************************************)
(* Sequences                                                               *)
(***************************************************************************)
Range(s) == {s[i] : i \in 1..Len(s)}

SetMin(S) == CHOOSE x \in S : \A y \in S : x <= y

SetMax(S) == CHOOSE x \in S : \A y \in S : y <= x

\* s[:n]
Take(s, n) == IF Len(s) <= n THEN s ELSE SubSeq(s, 1, n)

\* s[-n:]
TakeLast(s, n) == IF Len(s) <= n THEN s ELSE SubSeq(s, Len(s) - n + 1, Len(s))

RECURSIVE Flatten(_)
\* the concatenation of a sequence of sequences
Flatten(ss) == IF ss = <<>> THEN <<>> ELSE Head(ss) \o Flatten(Tail(ss))

RECURSIVE SumSeq(_)
SumSeq(s) == IF s = <<>> THEN 0 ELSE Head(s) + SumSeq(Tail(s))

\* n / d rounded to the nearest integer (d > 0), as the format specs .1f and
\* .2f round a value that is not an exact tie
RoundDiv(n, d) == (2 * n + d) \div (2 * d)

(***************************************************************************)
(* Python str                                                              *)
(***************************************************************************)
UpperCase == <<"A","B","C","D","E","F","G","H","I","J","K","L","M","N","O","P","Q","R","S","T","U","V","W","X","Y","Z">>

LowerCase == <<"a","b","c","d","e","f","g","h","i","j","k","l","m","n","o","p","q","r","s","t","u","v","w","x","y","z">>

Digits == <<"0","1","2","3","4","5","6","7","8","9">>

\* the lower-case letter of each upper-case letter
lower_of == [c \in Range(UpperCase) |-> LowerCase[CHOOSE i \in 1..Len(UpperCase) : UpperCase[i] = c]]

upper_of == [c \in Range(LowerCase) |-> UpperCase[CHOOSE i \in 1..Len(LowerCase) : LowerCase[i] = c]]

LowerChar(c) == IF c \in DOMAIN lower_of THEN lower_of[c] ELSE c

\* str.lower()
lower(s) == [i \in 1..Len(s) |-> LowerChar(s[i])]

\* str.strip()
strip(s) ==
    LET keep == {i \in 1..Len(s) : s[i] # " "}
    IN  IF keep = {} THEN <<>> ELSE SubSeq(s, SetMin(keep), SetMax(keep))

\* k in s, for two str
str_in(k, s) == \E i \in 0..(Len(s) - Len(k)) : SubSeq(s, i + 1, i + Len(k)) = k

\* the class \w of the re module
WordChars == Range(LowerCase) \cup Range(UpperCase) \cup Range(Digits) \cup {"_"}

IsWordChar(c) == c \in WordChars

WordAt(s, i) == i >= 1 /\ i <= Len(s) /\ IsWordChar(s[i])

\* \b matches between s[p] and s[p+1] (p = 0 and p = Len(s) are the ends)
Boundary(s, p) == WordAt(s, p) # WordAt(s, p + 1)

\* re.search(r"\b" + re.escape(key) + r"\b", s)
re_search_word(key, s) ==
    \E i \in 0..(Len(s) - Len(key)) :
        /\ SubSeq(s, i + 1, i + Len(key)) = key
        /\ Boundary(s, i)
        /\ Boundary(s, i + Len(key))

\* " ".join(words)
RECURSIVE JoinWords(_)
JoinWords(ws) ==
    IF ws = <<>> THEN <<>>
    ELSE IF Len(ws) = 1 THEN ws[1]
    ELSE ws[1] \o <<" ">> \o JoinWords(Tail(ws))

\* re.findall(r"\b\w+\b", s): the maximal runs of word characters, in order
RECURSIVE findall_words(_)
findall_words(s) ==
    LET starts == {i \in 1..Len(s) : IsWordChar(s[i])}
    IN  IF starts = {} THEN <<>>
        ELSE LET b == SetMin(starts)
                 stops == {j \in b..Len(s) : ~WordAt(s, j + 1)}
                 e == SetMin(stops)
             IN  <<SubSeq(s, b, e)>> \o findall_words(SubSeq(s, e + 1, Len(s)))

(***************************************************************************)
(* Cells and DataFrames                                                    *)
(***************************************************************************)
Str(s) == [k |-> "str", s |-> s]

Integer(n) == [k |-> "int", n |-> n]

Float(n) == [k |-> "float", n |-> n]

\* a timestamp: the calendar day as the number yyyymmdd, and the nanoseconds
\* within it (only set when to_datetime converts a number)
Timestamp(d, ns) == [k |-> "date", d |-> d, ns |-> ns]

\* the missing value
NaN == [k |-> "null"]

None == [none |-> TRUE]

notna(v) == v # NaN

IsNumber(v) == v.k \in {"int", "float"}

NumericDtypes == {"int64", "float64"}

RECURSIVE str_of_nat(_)
str_of_nat(n) == IF n < 10 THEN <<Digits[n + 1]>> ELSE str_of_nat(n \div 10) \o <<Digits[(n % 10) + 1]>>

str_of_int(n) == IF n < 0 THEN <<"-">> \o str_of_nat(-n) ELSE str_of_nat(n)

TwoDigits(n) == <<Digits[(n \div 10) + 1], Digits[(n % 10) + 1]>>

\* str(v) of a cell value (floats of the model are whole numbers; a timestamp
\* prints its date and, when it has one, its time of day)
str(v) ==
    CASE v.k = "str" -> v.s
      [] v.k = "int" -> str_of_int(v.n)
      [] v.k = "float" -> str_of_int(v.n) \o <<".","0">>
      [] v.k = "date" ->
            str_of_nat(v.d \div 10000) \o <<"-">> \o TwoDigits((v.d \div 100) % 100)
                \o <<"-">> \o TwoDigits(v.d % 100)
                \o (IF v.ns = 0 THEN <<" ","0","0",":","0","0",":","0","0">> ELSE <<" ","0","0",":","0","0",":","0","0",".">> \o str_of_int(v.ns))
      [] OTHER -> <<"n","a","n">>

\* DataFrame.empty: no rows or no columns
empty(df) == Len(df.columns) = 0 \/ Len(df.rows) = 0

\* a faulty variant of df.copy(), for comparison: the same object is handed on
copy_same_object(ref) == ref

\* df.copy(): a new object holding the same data; "id" is the identity of the
\* object, so that a write through one name is seen through the others
copy(ref) == [id |-> "copy", df |-> ref.df]

\* the dtype pd.concat gives a column that both frames have
common_type(x, y) ==
    IF x = y THEN x
    ELSE IF x \in NumericDtypes /\ y \in NumericDtypes THEN "float64"
    ELSE "object"

\* the dtype pd.concat gives a column that one frame lacks: int64 cannot hold
\* NaN and becomes float64
with_missing(x) == IF x = "int64" THEN "float64" ELSE x

\* a cell stored in a column of dtype dt
as_dtype(v, dt) == IF dt = "float64" /\ v.k = "int" THEN Float(v.n) ELSE v

\* a faulty variant, for comparison: a same-shape concatenation that keeps the first frame's columns
concat_first_columns(a, b) ==
    LET widen(t, r) == [c \in Range(a.columns) |-> IF c \in Range(t.columns) THEN r[c] ELSE NaN]
    IN  [columns |-> a.columns,
         dtype |-> a.dtype,
         rows |-> [i \in 1..Len(a.rows) |-> a.rows[i]]
                    \o [i \in 1..Len(b.rows) |-> widen(b, b.rows[i])]]

\* pd.concat([a, b], ignore_index=True, sort=False): the outer union of the
\* columns, a's labels first, and a's rows followed by b's
concat(a, b) ==
    LET cols == a.columns \o SelectSeq(b.columns, LAMBDA c : c \notin Range(a.columns))
        dt == [c \in Range(cols) |->
                 IF c \in Range(a.columns) /\ c \in Range(b.columns)
                 THEN common_type(a.dtype[c], b.dtype[c])
                 ELSE IF c \in Range(a.columns) THEN with_missing(a.dtype[c])
                 ELSE with_missing(b.dtype[c])]
        widen(t, r) == [c \in Range(cols) |->
                 IF c \in Range(t.columns) THEN as_dtype(r[c], dt[c]) ELSE NaN]
    IN  [columns |-> cols,
         dtype |-> dt,
         rows |-> [i \in 1..Len(a.rows) |-> widen(a, a.rows[i])]
                    \o [i \in 1..Len(b.rows) |-> widen(b, b.rows[i])]]

\* combined_df[col] = combined_df[col].fillna("")
fillna_empty(df, col) ==
    [df EXCEPT !.rows = [i \in 1..Len(df.rows) |->
        [df.rows[i] EXCEPT ![col] = IF @ = NaN THEN Str(<<>>) ELSE @]]]

RECURSIVE fill_object_columns(_, _)
\* for col in combined_df.columns: if dtype == "object": fillna("")
fill_object_columns(df, cols) ==
    IF cols = <<>> THEN df
    ELSE fill_object_columns(
            IF df.dtype[Head(cols)] = "object" THEN fillna_empty(df, Head(cols)) ELSE df,
            Tail(cols))

\* df[col].dropna(), as the list of its values in row order
dropna(df, col) == SelectSeq([i \in 1..Len(df.rows) |-> df.rows[i][col]], notna)

\* df[col].notna().sum()
count_notna(df, col) == Len(dropna(df, col))

\* the distinct values of a list in order of first appearance (Series.unique)
unique(vals) ==
    LET first == SelectSeq([i \in 1..Len(vals) |-> i],
                           LAMBDA i : \A j \in 1..(i - 1) : vals[j] # vals[i])
    IN  [i \in 1..Len(first) |-> vals[first[i]]]

\* df[col].nunique(): the number of distinct non-null values
nunique(df, col) == Cardinality(Range(dropna(df, col)))

\* how often v occurs in vals
Occurrences(vals, v) == Cardinality({i \in 1..Len(vals) : vals[i] = v})

\* df.select_dtypes(include=[np.number]).columns.tolist()
numeric_columns(df) == SelectSeq(df.columns, LAMBDA c : df.dtype[c] \in NumericDtypes)

(***************************************************************************)
(* detect_question_type                                                    *)
(***************************************************************************)
count_words == <<<<"h","o","w"," ","m","a","n","y">>, <<"c","o","u","n","t">>, <<"t","o","t","a","l">>, <<"n","u","m","b","e","r"," ","o","f">>, <<"q","u","a","n","t","i","t","y">>>>

stats_words ==
    <<<<"a","v","e","r","a","g","e">>, <<"m","e","a","n">>, <<"m","e","d","i","a","n">>, <<"m","i","n">>, <<"m","a","x">>, <<"s","u","m">>, <<"s","t","a","t","i","s","t","i","c","s">>, <<"s","t","a","t","s">>, <<"a","v","g">>>>

search_words == <<<<"f","i","n","d">>, <<"s","e","a","r","c","h">>, <<"s","h","o","w">>, <<"d","i","s","p","l","a","y">>, <<"g","e","t">>>>

filter_words == <<<<"w","h","e","r","e">>, <<"w","h","i","c","h">>, <<"w","h","a","t">>, <<"w","h","o">>, <<"w","h","e","n">>, <<"w","i","t","h">>, <<"h","a","v","i","n","g">>>>

compare_words ==
    <<<<"c","o","m","p","a","r","e">>, <<"d","i","f","f","e","r","e","n","c","e">>, <<"v","s">>, <<"v","e","r","s","u","s">>, <<"m","o","r","e"," ","t","h","a","n">>, <<"l","e","s","s"," ","t","h","a","n">>, <<"g","r","e","a","t","e","r">>,
      <<"s","m","a","l","l","e","r">>>>

trend_words ==
    <<<<"t","r","e","n","d">>, <<"o","v","e","r"," ","t","i","m","e">>, <<"r","e","c","e","n","t">>, <<"l","a","t","e","s","t">>, <<"o","l","d","e","s","t">>, <<"n","e","w","e","s","t">>, <<"e","a","r","l","i","e","s","t">>, <<"l","a","s","t">>>>

value_words == <<<<"v","a","l","u","e">>, <<"w","h","a","t"," ","i","s">>, <<"t","e","l","l"," ","m","e">>, <<"g","i","v","e"," ","m","e">>>>

list_words == <<<<"l","i","s","t">>, <<"a","l","l">>, <<"e","v","e","r","y">>, <<"e","a","c","h">>>>

summary_words == <<<<"s","u","m","m","a","r","y">>, <<"o","v","e","r","v","i","e","w">>, <<"t","e","l","l"," ","m","e"," ","a","b","o","u","t">>, <<"d","e","s","c","r","i","b","e">>>>

\* any(word in user_input for word in words)
any_word_in(words, user_input) == \E i \in 1..Len(words) : str_in(words[i], user_input)

\* a faulty variant, for comparison: the statistics test is made before the count test
detect_question_type_stats_first(user_input) ==
    IF any_word_in(stats_words, user_input) THEN "statistics"
    ELSE IF any_word_in(count_words, user_input) THEN "count"
    ELSE IF any_word_in(search_words, user_input) THEN "search"
    ELSE IF any_word_in(filter_words, user_input) THEN "filter"
    ELSE IF any_word_in(compare_words, user_input) THEN "comparison"
    ELSE IF any_word_in(trend_words, user_input) THEN "trend"
    ELSE IF any_word_in(value_words, user_input) THEN "value"
    ELSE IF any_word_in(list_words, user_input) THEN "list"
    ELSE IF any_word_in(summary_words, user_input) THEN "summary"
    ELSE "general"

detect_question_type(user_input) ==
    IF any_word_in(count_words, user_input) THEN "count"
    ELSE IF any_word_in(stats_words, user_input) THEN "statistics"
    ELSE IF any_word_in(search_words, user_input) THEN "search"
    ELSE IF any_word_in(filter_words, user_input) THEN "filter"
    ELSE IF any_word_in(compare_words, user_input) THEN "comparison"
    ELSE IF any_word_in(trend_words, user_input) THEN "trend"
    ELSE IF any_word_in(value_words, user_input) THEN "value"
    ELSE IF any_word_in(list_words, user_input) THEN "list"
    ELSE IF any_word_in(summary_words, user_input) THEN "summary"
    ELSE "general"

(***************************************************************************)
(* analyze_and_answer: the columns the question mentions                   *)
(***************************************************************************)
\* the key col.lower().strip() of the dictionary col_map
col_key(col) == strip(lower(col))

\* the keys of col_map in insertion order: a key that comes again keeps the
\* place of its first insertion
col_map_keys(columns) ==
    LET first == SelectSeq([i \in 1..Len(columns) |-> i],
                    LAMBDA i : \A j \in 1..(i - 1) : col_key(columns[j]) # col_key(columns[i]))
    IN  [i \in 1..Len(first) |-> col_key(columns[first[i]])]

\* col_map[key]: the last column inserted under the key
col_map_get(columns, key) ==
    columns[SetMax({i \in 1..Len(columns) : col_key(columns[i]) = key})]

mentioned_columns(user_input, columns) ==
    LET keys == SelectSeq(col_map_keys(columns), LAMBDA key : re_search_word(key, user_input))
    IN  [i \in 1..Len(keys) |-> col_map_get(columns, keys[i])]

(***************************************************************************)
(* Helpers of the handlers.  A response is the list of its lines: a record *)
(* per "\n"-terminated line of the text, holding what the line prints.     *)
(***************************************************************************)
\* the value vocabulary of the count and filter handlers
status_values ==
    <<<<"c","r","i","t","i","c","a","l">>, <<"h","i","g","h">>, <<"m","e","d","i","u","m">>, <<"l","o","w">>, <<"o","p","e","n">>, <<"c","l","o","s","e","d">>, <<"r","e","s","o","l","v","e","d">>, <<"p","e","n","d","i","n","g">>,
      <<"a","c","t","i","v","e">>, <<"i","n","a","c","t","i","v","e">>>>

\* val.title() of a lower-case word
title(w) ==
    IF w = <<>> THEN w
    ELSE <<IF w[1] \in DOMAIN upper_of THEN upper_of[w[1]] ELSE w[1]>> \o Tail(w)

\* seq sorted by decreasing key; elements of equal key keep their order
SortDescStable(seq, key(_)) ==
    LET n == Len(seq)
        rank(i) == Cardinality({j \in 1..n :
                        key(seq[j]) > key(seq[i]) \/ (key(seq[j]) = key(seq[i]) /\ j < i)}) + 1
    IN  [p \in 1..n |-> seq[CHOOSE i \in 1..n : rank(i) = p]]

\* seq sorted by increasing key; elements of equal key keep their order
SortAscStable(seq, key(_)) ==
    LET n == Len(seq)
        rank(i) == Cardinality({j \in 1..n :
                        key(seq[j]) < key(seq[i]) \/ (key(seq[j]) = key(seq[i]) /\ j < i)}) + 1
    IN  [p \in 1..n |-> seq[CHOOSE i \in 1..n : rank(i) = p]]

\* Series.value_counts() of a list of non-null values: each distinct value with
\* its number of occurrences, most frequent first
value_counts(vals) ==
    LET u == unique(vals)
        pairs == [i \in 1..Len(u) |-> [val |-> u[i], count |-> Occurrences(vals, u[i])]]
    IN  SortDescStable(pairs, LAMBDA p : p.count)

\* (count / total) * 100 printed with :.1f, in tenths of a percent
pct_tenths(count, total) == RoundDiv(count * 1000, total)

\* the "- val: count (pct%)" lines of a value_counts table
distribution_lines(vc, total) ==
    [i \in 1..Len(vc) |->
        [t |-> "value_count", val |-> str(vc[i].val), count |-> vc[i].count,
         pct |-> pct_tenths(vc[i].count, total)]]

\* the key_info list of a row: "col: val" for the non-blank cells among the
\* first n columns, cut to its first three entries
key_info(columns, row, n) ==
    LET shown == SelectSeq(Take(columns, n),
                    LAMBDA c : notna(row[c]) /\ strip(str(row[c])) # <<>>)
    IN  Take([i \in 1..Len(shown) |-> [col |-> shown[i], val |-> str(row[shown[i]])]], 3)

\* [col for col in columns if df[col].dtype == "object" and df[col].nunique() <= limit]
categorical_columns(df, columns, limit) ==
    SelectSeq(columns, LAMBDA c : df.dtype[c] = "object" /\ nunique(df, c) <= limit)

\* a faulty variant, for comparison: the entries are compared as they are written
value_equals_as_written(v, val) == str(v) = val

\* the count == val test: str(v).lower().strip() == val
value_equals(v, val) == strip(lower(str(v))) = val

\* the sum of a list of numeric cells
sum_cells(cells) == SumSeq([i \in 1..Len(cells) |-> cells[i].n])

\* min, max and mean (in hundredths, :.2f) of the non-null values; NaN when
\* there is none
min_max_mean(df, col) ==
    LET vals == dropna(df, col)
        ns == {vals[i].n : i \in 1..Len(vals)}
    IN  IF vals = <<>> THEN [nan |-> TRUE]
        ELSE [nan |-> FALSE, min |-> SetMin(ns), max |-> SetMax(ns),
              mean |-> RoundDiv(100 * sum_cells(vals), Len(vals))]

(***************************************************************************)
(* handle_comprehensive_count                                              *)
(***************************************************************************)
\* the block of one mentioned column
count_column_block(user_input, df, col) ==
    IF str_in(<<"u","n","i","q","u","e">>, user_input) \/ str_in(<<"d","i","f","f","e","r","e","n","t">>, user_input)
    THEN <<[t |-> "unique_count", col |-> col, count |-> nunique(df, col)],
           [t |-> "blank"]>>
    ELSE LET non_null_data == dropna(df, col)
             vc == value_counts(non_null_data)
         IN  IF Len(non_null_data) > 0 /\ Len(vc) <= 20
             THEN <<[t |-> "count_by", col |-> col]>>
                    \o [i \in 1..Len(vc) |->
                          [t |-> "value_count", val |-> str(vc[i].val),
                           count |-> vc[i].count,
                           pct |-> pct_tenths(vc[i].count, Len(df.rows))]]
                    \o <<[t |-> "blank"]>>
             ELSE <<>>

\* the column = value count of one column: the first vocabulary value that
\* is in the question as a word and has a positive count
count_value_block(user_input, df, col) ==
    LET present == dropna(df, col)
        n_equal(val) == Cardinality({i \in 1..Len(present) : value_equals(present[i], val)})
        hits == SelectSeq(status_values,
                    LAMBDA val : re_search_word(val, user_input) /\ n_equal(val) > 0)
    IN  IF re_search_word(lower(col), user_input) /\ hits # <<>>
        THEN <<[t |-> "column_value", col |-> col, val |-> title(hits[1]),
                count |-> n_equal(hits[1])],
               [t |-> "blank"]>>
        ELSE <<>>

\* the general counts given when nothing specific was found
count_general(df, columns) ==
    LET categorical_cols ==
            Take(SortDescStable(categorical_columns(df, columns, 20),
                                LAMBDA c : count_notna(df, c)), 7)
        block(col) ==
            LET vc == Take(value_counts(dropna(df, col)), 10)
            IN  IF vc = <<>> THEN <<>>
                ELSE <<[t |-> "distribution", col |-> col]>>
                        \o distribution_lines(vc, Len(df.rows)) \o <<[t |-> "blank"]>>
    IN  <<[t |-> "total_records", count |-> Len(df.rows)], [t |-> "blank"]>>
            \o Flatten([i \in 1..Len(categorical_cols) |-> block(categorical_cols[i])])

handle_comprehensive_count(user_input, df, columns, mentioned_cols, data_sources) ==
    LET by_column == Flatten([i \in 1..Len(mentioned_cols) |->
                        count_column_block(user_input, df, mentioned_cols[i])])
        by_value == Flatten([i \in 1..Len(columns) |->
                        count_value_block(user_input, df, columns[i])])
        specific == by_column \o by_value
        response == IF specific = <<>> THEN count_general(df, columns) ELSE specific
    IN  response \o (IF Len(data_sources) > 1
                     THEN <<[t |-> "blank"], [t |-> "data_from", sources |-> data_sources]>>
                     ELSE <<>>)

(***************************************************************************)
(* handle_comprehensive_statistics                                         *)
(***************************************************************************)
\* the median of the non-null values, in hundredths
median_hundredths(vals) ==
    LET sorted == SortAscStable(vals, LAMBDA v : v.n)
        n == Len(sorted)
    IN  IF n % 2 = 1 THEN 100 * sorted[(n + 1) \div 2].n
        ELSE 50 * (sorted[n \div 2].n + sorted[(n \div 2) + 1].n)

\* a faulty variant, for comparison: the statistics are taken over all rows, a null counting as 0
statistics_block_with_nulls(df, col) ==
    LET n == Len(df.rows)
        col_data == dropna(df, col)
        total == sum_cells(col_data)
        ns == {col_data[i].n : i \in 1..Len(col_data)} \cup (IF Len(col_data) < n THEN {0} ELSE {})
    IN  IF Len(col_data) = 0 THEN <<>>
        ELSE <<[t |-> "statistics", col |-> col],
               [t |-> "stat_count", col |-> col, count |-> n],
               [t |-> "stat_mean", col |-> col, hundredths |-> RoundDiv(100 * total, n)],
               [t |-> "stat_min", col |-> col, hundredths |-> 100 * SetMin(ns)],
               [t |-> "stat_max", col |-> col, hundredths |-> 100 * SetMax(ns)],
               [t |-> "blank"]>>

\* col_data.describe() and the lines printed from it; the standard deviation
\* (ddof = 1) is given by its square, the fraction var_num / var_den, and is
\* NaN, hence not printed, for a single value
statistics_block(df, col) ==
    LET col_data == dropna(df, col)
        n == Len(col_data)
        total == sum_cells(col_data)
        squares == SumSeq([i \in 1..n |-> col_data[i].n * col_data[i].n])
        ns == {col_data[i].n : i \in 1..n}
    IN  IF n = 0 THEN <<>>
        ELSE <<[t |-> "statistics", col |-> col],
               [t |-> "stat_count", col |-> col, count |-> n],
               [t |-> "stat_mean", col |-> col, hundredths |-> RoundDiv(100 * total, n)],
               [t |-> "stat_median", col |-> col, hundredths |-> median_hundredths(col_data)],
               [t |-> "stat_min", col |-> col, hundredths |-> 100 * SetMin(ns)],
               [t |-> "stat_max", col |-> col, hundredths |-> 100 * SetMax(ns)]>>
             \o (IF n > 1
                 THEN <<[t |-> "stat_std", col |-> col,
                         var_num |-> n * squares - total * total, var_den |-> n * (n - 1)]>>
                 ELSE <<>>)
             \o <<[t |-> "blank"]>>

\* the columns analysed: the mentioned numeric columns, else the first five
\* numeric columns
statistics_columns(df, mentioned_cols) ==
    LET numeric_cols == numeric_columns(df)
        analyzed_cols == SelectSeq(mentioned_cols, LAMBDA c : c \in Range(numeric_cols))
    IN  IF analyzed_cols # <<>> THEN analyzed_cols ELSE Take(numeric_cols, 5)

handle_comprehensive_statistics(user_input, df, columns, mentioned_cols) ==
    LET analyzed_cols == statistics_columns(df, mentioned_cols)
        categorical_cols == Take(categorical_columns(df, columns, 20), 3)
        distribution(col) ==
            LET vc == value_counts(dropna(df, col))
            IN  IF vc = <<>> THEN <<>>
                ELSE <<[t |-> "distribution", col |-> col]>>
                        \o distribution_lines(Take(vc, 5), Len(df.rows)) \o <<[t |-> "blank"]>>
    IN  <<[t |-> "header", text |-> "Statistical Analysis"], [t |-> "blank"]>>
        \o (IF analyzed_cols # <<>>
            THEN Flatten([i \in 1..Len(analyzed_cols) |-> statistics_block(df, analyzed_cols[i])])
            ELSE <<[t |-> "no_numeric_columns"]>>
                    \o Flatten([i \in 1..Len(categorical_cols) |->
                                    distribution(categorical_cols[i])]))

(***************************************************************************)
(* handle_comprehensive_search                                             *)
(***************************************************************************)
stop_words ==
    {<<"t","h","e">>, <<"a">>, <<"a","n">>, <<"a","n","d">>, <<"o","r">>, <<"b","u","t">>, <<"i","n">>, <<"o","n">>, <<"a","t">>, <<"t","o">>, <<"f","o","r">>, <<"o","f">>,
     <<"w","i","t","h">>, <<"b","y">>, <<"f","r","o","m">>, <<"i","s">>, <<"a","r","e">>, <<"w","a","s">>, <<"w","e","r","e">>, <<"b","e">>, <<"b","e","e","n">>, <<"b","e","i","n","g">>,
     <<"h","a","v","e">>, <<"h","a","s">>, <<"h","a","d">>, <<"d","o">>, <<"d","o","e","s">>, <<"d","i","d">>, <<"w","i","l","l">>, <<"w","o","u","l","d">>, <<"s","h","o","u","l","d">>,
     <<"c","o","u","l","d">>, <<"m","a","y">>, <<"m","i","g","h","t">>, <<"m","u","s","t">>, <<"c","a","n">>, <<"f","i","n","d">>, <<"s","h","o","w">>, <<"s","e","a","r","c","h">>, <<"g","e","t">>,
     <<"d","i","s","p","l","a","y">>}

\* the words of the question that are no stop words and longer than two letters
search_terms_of(user_input) ==
    SelectSeq(findall_words(lower(user_input)),
              LAMBDA term : term \notin stop_words /\ Len(term) > 2)

\* df[col].astype(str).str.lower().str.contains("|".join(search_terms)) of a cell
cell_contains(v, search_terms) ==
    \E i \in 1..Len(search_terms) : str_in(search_terms[i], lower(str(v)))

\* the rows found, column after column, as pd.concat(..., ignore_index=True)
\* collects them
search_matches(df, columns, search_terms) ==
    LET text_columns == SelectSeq(columns, LAMBDA c : df.dtype[c] = "object")
        matching_rows(col) == SelectSeq(df.rows, LAMBDA r : cell_contains(r[col], search_terms))
    IN  Flatten([i \in 1..Len(text_columns) |-> matching_rows(text_columns[i])])

\* matches.drop_duplicates(): the first of each group of equal rows, under the
\* index label (from 0) it had before
drop_duplicates(rows) ==
    LET first == SelectSeq([i \in 1..Len(rows) |-> i],
                           LAMBDA i : \A j \in 1..(i - 1) : rows[j] # rows[i])
    IN  [i \in 1..Len(first) |-> [idx |-> first[i] - 1, row |-> rows[first[i]]]]

handle_comprehensive_search(user_input, df, columns) ==
    LET search_terms == search_terms_of(user_input)
        matches == drop_duplicates(search_matches(df, columns, search_terms))
        shown == Take(matches, 10)
    IN  IF search_terms = <<>> THEN <<[t |-> "search_usage_hint"]>>
        ELSE IF matches # <<>>
        THEN <<[t |-> "found", count |-> Len(matches)], [t |-> "blank"]>>
                \o Flatten([i \in 1..Len(shown) |->
                      <<[t |-> "record", number |-> shown[i].idx + 1],
                        [t |-> "key_info", info |-> key_info(columns, shown[i].row, 5)],
                        [t |-> "blank"]>>])
                \o (IF Len(matches) > 10
                    THEN <<[t |-> "more_results", count |-> Len(matches) - 10]>>
                    ELSE <<>>)
        ELSE <<[t |-> "no_records_found", terms |-> search_terms], [t |-> "blank"],
               [t |-> "try_different_terms"]>>

(***************************************************************************)
(* handle_comprehensive_filter                                             *)
(***************************************************************************)
\* re.findall(r"\d+\.?\d*", user_input)[0] as a fraction num / den, or none
first_number(user_input) ==
    LET IsDigit(i) == i >= 1 /\ i <= Len(user_input) /\ user_input[i] \in Range(Digits)
        digit(i) == CHOOSE d \in 0..9 : Digits[d + 1] = user_input[i]
        starts == {i \in 1..Len(user_input) : IsDigit(i)}
        b == SetMin(starts)
        e == SetMin({j \in b..Len(user_input) : ~IsDigit(j + 1)})
        has_point == e < Len(user_input) /\ user_input[e + 1] = "."
        f == IF has_point /\ IsDigit(e + 2)
             THEN SetMin({j \in (e + 2)..Len(user_input) : ~IsDigit(j + 1)})
             ELSE e
        digits == [i \in 1..((e - b + 1) + (IF f > e THEN f - e - 1 ELSE 0)) |->
                      IF i <= e - b + 1 THEN digit(b + i - 1) ELSE digit(e + 1 + i - (e - b + 1))]
        value[i \in 0..Len(digits)] == IF i = 0 THEN 0 ELSE 10 * value[i - 1] + digits[i]
        scale[i \in 0..Len(digits)] == IF i = 0 THEN 1 ELSE 10 * scale[i - 1]
    IN  IF starts = {} THEN [found |-> FALSE]
        ELSE [found |-> TRUE, num |-> value[Len(digits)],
              den |-> scale[IF f > e THEN f - e - 1 ELSE 0]]

\* the categorical filter of one column: the first vocabulary value that is in
\* the question as a word and that some non-null entry equals
filter_value_of(user_input, df, col) ==
    LET hits == SelectSeq(status_values,
                    LAMBDA val : /\ re_search_word(val, user_input)
                                 /\ \E i \in 1..Len(df.rows) :
                                        notna(df.rows[i][col]) /\ value_equals(df.rows[i][col], val))
    IN  IF re_search_word(lower(col), user_input) /\ hits # <<>>
        THEN <<[kind |-> "=", col |-> col, val |-> hits[1]]>>
        ELSE <<>>

\* the numeric filter: the loop over the numeric columns ends at the first
\* column whose filter is applied
filter_numeric_of(user_input, df) ==
    LET greater == \/ str_in(<<"g","r","e","a","t","e","r"," ","t","h","a","n">>, user_input)
                   \/ str_in(<<"m","o","r","e"," ","t","h","a","n">>, user_input)
                   \/ str_in(<<">">>, user_input)
        less == \/ str_in(<<"l","e","s","s"," ","t","h","a","n">>, user_input)
                \/ str_in(<<"s","m","a","l","l","e","r"," ","t","h","a","n">>, user_input)
                \/ str_in(<<"<">>, user_input)
        threshold == first_number(user_input)
        passes(v, kind) ==
            /\ notna(v)
            /\ IF kind = ">" THEN v.n * threshold.den > threshold.num
               ELSE v.n * threshold.den < threshold.num
        kind == IF greater THEN ">" ELSE "<"
        cols == SelectSeq(numeric_columns(df),
                    LAMBDA c : /\ re_search_word(lower(c), user_input)
                               /\ \E i \in 1..Len(df.rows) : passes(df.rows[i][c], kind))
    IN  IF (greater \/ less) /\ threshold.found /\ cols # <<>>
        THEN <<[kind |-> kind, col |-> cols[1], num |-> threshold.num, den |-> threshold.den]>>
        ELSE <<>>

\* the filters the question asks for, in the order they are applied
filters_applied_of(user_input, df, columns) ==
    Flatten([i \in 1..Len(columns) |-> filter_value_of(user_input, df, columns[i])])
        \o filter_numeric_of(user_input, df)

\* whether a row passes one filter
passes_filter(row, f) ==
    /\ notna(row[f.col])
    /\ CASE f.kind = "=" -> value_equals(row[f.col], f.val)
         [] f.kind = ">" -> row[f.col].n * f.den > f.num
         [] OTHER -> row[f.col].n * f.den < f.num

\* a faulty variant, for comparison: each filter replaces the one before it
filtered_rows_last_filter(df, filters) ==
    LET kept == SelectSeq([i \in 1..Len(df.rows) |-> i],
                    LAMBDA i : passes_filter(df.rows[i], filters[Len(filters)]))
    IN  [i \in 1..Len(kept) |-> [idx |-> kept[i] - 1, row |-> df.rows[kept[i]]]]

\* filtered_df: the rows left, each under its index label (from 0)
filtered_rows(df, filters) ==
    LET kept == SelectSeq([i \in 1..Len(df.rows) |-> i],
                    LAMBDA i : \A j \in 1..Len(filters) : passes_filter(df.rows[i], filters[j]))
    IN  [i \in 1..Len(kept) |-> [idx |-> kept[i] - 1, row |-> df.rows[kept[i]]]]

handle_comprehensive_filter(user_input, df, columns) ==
    LET filters_applied == filters_applied_of(user_input, df, columns)
        filtered_df == filtered_rows(df, filters_applied)
        shown == Take(filtered_df, 10)
    IN  IF filters_applied # <<>>
        THEN <<[t |-> "filtered_results", count |-> Len(filtered_df)], [t |-> "blank"],
               [t |-> "filters_applied", filters |-> filters_applied], [t |-> "blank"]>>
                \o [i \in 1..Len(shown) |->
                      [t |-> "record", number |-> shown[i].idx + 1,
                       info |-> key_info(columns, shown[i].row, 4)]]
                \o (IF Len(filtered_df) > 10
                    THEN <<[t |-> "blank"], [t |-> "more_records", count |-> Len(filtered_df) - 10]>>
                    ELSE <<>>)
        ELSE handle_comprehensive_search(user_input, df, columns)

(***************************************************************************)
(* handle_comprehensive_comparison                                         *)
(***************************************************************************)
handle_comprehensive_comparison(user_input, df, columns, mentioned_cols) ==
    LET all_categorical == categorical_columns(df, columns, 20)
        categorical_cols ==
            IF mentioned_cols # <<>>
            THEN SelectSeq(mentioned_cols, LAMBDA c : c \in Range(all_categorical))
            ELSE all_categorical
        block(col) ==
            LET vc == value_counts(dropna(df, col))
            IN  IF vc = <<>> THEN <<>>
                ELSE <<[t |-> "comparison", col |-> col]>>
                        \o distribution_lines(vc, Len(df.rows)) \o <<[t |-> "blank"]>>
        numeric_cols == Take(numeric_columns(df), 3)
    IN  <<[t |-> "header", text |-> "Comparison Analysis"], [t |-> "blank"]>>
        \o (IF categorical_cols # <<>>
            THEN Flatten([i \in 1..Len(Take(categorical_cols, 3)) |->
                            block(Take(categorical_cols, 3)[i])])
            ELSE IF numeric_cols # <<>>
            THEN <<[t |-> "numeric_comparisons"]>>
                    \o [i \in 1..Len(numeric_cols) |->
                          [t |-> "min_max_avg", col |-> numeric_cols[i],
                           stats |-> min_max_mean(df, numeric_cols[i])]]
                    \o <<[t |-> "blank"]>>
            ELSE <<>>)

(***************************************************************************)
(* handle_comprehensive_trend                                              *)
(***************************************************************************)
\* the digit d (0..9) of a character, -1 for any other character
digit_value == [c \in Range(Digits) |-> CHOOSE d \in 0..9 : Digits[d + 1] = c]

digit_of(c) == IF c \in DOMAIN digit_value THEN digit_value[c] ELSE -1

days_in_month(y, m) ==
    IF m \in {4, 6, 9, 11} THEN 30
    ELSE IF m = 2 THEN (IF (y % 4 = 0 /\ y % 100 # 0) \/ y % 400 = 0 THEN 29 ELSE 28)
    ELSE 31

\* the day yyyymmdd a string of the form YYYY-MM-DD names, -1 when the string
\* has another form or names no day of the calendar
iso_date(s) ==
    IF Len(s) = 10 /\ s[5] = "-" /\ s[8] = "-"
       /\ \A i \in {1, 2, 3, 4, 6, 7, 9, 10} : digit_of(s[i]) >= 0
    THEN LET y == 1000 * digit_of(s[1]) + 100 * digit_of(s[2]) + 10 * digit_of(s[3]) + digit_of(s[4])
             m == 10 * digit_of(s[6]) + digit_of(s[7])
             d == 10 * digit_of(s[9]) + digit_of(s[10])
         IN  IF m >= 1 /\ m <= 12 /\ d >= 1 /\ d <= days_in_month(y, m)
             THEN 10000 * y + 100 * m + d
             ELSE -1
    ELSE -1

\* whether pd.to_datetime(..., errors="raise") accepts the value: nulls, blank
\* strings, numbers (nanoseconds since 1970) and timestamps pass, and of the
\* other strings those that name a date
parses_as_date(v) == v.k # "str" \/ strip(v.s) = <<>> \/ iso_date(strip(v.s)) >= 0

\* pd.to_datetime(..., errors="coerce") of one value: what does not parse is
\* NaT (the numbers of the model are >= 0 and below one day of nanoseconds)
to_datetime(v) ==
    CASE v.k = "date" -> v
      [] v.k \in {"int", "float"} -> Timestamp(19700101, v.n)
      [] v.k = "str" /\ iso_date(strip(v.s)) >= 0 -> Timestamp(iso_date(strip(v.s)), 0)
      [] OTHER -> NaN

\* the columns holding dates: by name, else by content of the first 10 rows
date_columns(df, columns) ==
    LET keywords == <<<<"d","a","t","e">>, <<"t","i","m","e">>, <<"t","i","m","e","s","t","a","m","p">>, <<"c","r","e","a","t","e","d">>, <<"u","p","d","a","t","e","d">>>>
        by_name == SelectSeq(columns, LAMBDA c : any_word_in(keywords, lower(c)))
        by_content == SelectSeq(columns,
                        LAMBDA c : \A i \in 1..Len(Take(df.rows, 10)) : parses_as_date(df.rows[i][c]))
    IN  IF by_name # <<>> THEN by_name ELSE by_content

\* df[date_col] = pd.to_datetime(df[date_col], errors="coerce"): the frame the
\* handler was given, with the column replaced
with_datetime_column(df, date_col) ==
    [df EXCEPT !.dtype[date_col] = "datetime64[ns]",
               !.rows = [i \in 1..Len(df.rows) |->
                            [df.rows[i] EXCEPT ![date_col] = to_datetime(@)]]]

\* the frame after the handler has run
trend_frame(df, columns) ==
    IF date_columns(df, columns) = <<>> THEN df
    ELSE with_datetime_column(df, date_columns(df, columns)[1])

\* a timestamp before another
earlier(u, v) == u.d < v.d \/ (u.d = v.d /\ u.ns < v.ns)

\* df.sort_values(date_col, na_position="last"): the rows by increasing date,
\* rows of equal date in their order, the rows without a date last
sort_values(df, date_col) ==
    LET n == Len(df.rows)
        val(i) == df.rows[i][date_col]
        before(j, i) ==
            \/ notna(val(j)) /\ ~notna(val(i))
            \/ notna(val(j)) /\ notna(val(i)) /\ earlier(val(j), val(i))
            \/ j < i /\ (notna(val(j)) <=> notna(val(i)))
                     /\ (notna(val(j)) => ~earlier(val(i), val(j)))
        rank(i) == Cardinality({j \in 1..n : j # i /\ before(j, i)}) + 1
    IN  [p \in 1..n |-> df.rows[CHOOSE i \in 1..n : rank(i) = p]]

\* the lines of the rows listed by the "recent" and the "oldest" branches
trend_rows(columns, rows) ==
    [i \in 1..Len(rows) |-> [t |-> "trend_row", info |-> key_info(columns, rows[i], 4)]]

\* the last six months that have records, each with its number of records
period_counts(dates) ==
    LET months == {dates[i].d \div 100 : i \in 1..Len(dates)}
        ordered == SortAscStable(unique([i \in 1..Len(dates) |-> dates[i].d \div 100]),
                                 LAMBDA m : m)
    IN  [i \in 1..Len(TakeLast(ordered, 6)) |->
            [t |-> "period", month |-> TakeLast(ordered, 6)[i],
             count |-> Cardinality({j \in 1..Len(dates) :
                                        dates[j].d \div 100 = TakeLast(ordered, 6)[i]})]]

\* the earliest and the latest of a list of timestamps
first_date(dates) == CHOOSE u \in Range(dates) : \A v \in Range(dates) : ~earlier(v, u)

last_date(dates) == CHOOSE u \in Range(dates) : \A v \in Range(dates) : ~earlier(u, v)

handle_comprehensive_trend(user_input, df, columns) ==
    LET date_cols == date_columns(df, columns)
        date_col == date_cols[1]
        converted == with_datetime_column(df, date_col)
        df_sorted == sort_values(converted, date_col)
        dates == dropna(converted, date_col)
    IN  IF date_cols = <<>> THEN <<[t |-> "no_date_columns"]>>
        ELSE <<[t |-> "header", text |-> "Trend Analysis"], [t |-> "blank"]>>
             \o (IF \/ str_in(<<"r","e","c","e","n","t">>, user_input)
                    \/ str_in(<<"l","a","t","e","s","t">>, user_input)
                    \/ str_in(<<"n","e","w","e","s","t">>, user_input)
                 THEN <<[t |-> "most_recent_records"], [t |-> "blank"]>>
                        \o trend_rows(columns, TakeLast(df_sorted, 10))
                 ELSE IF str_in(<<"o","l","d","e","s","t">>, user_input) \/ str_in(<<"e","a","r","l","i","e","s","t">>, user_input)
                 THEN <<[t |-> "oldest_records"], [t |-> "blank"]>>
                        \o trend_rows(columns, Take(df_sorted, 10))
                 ELSE <<[t |-> "date_range",
                         from |-> IF dates = <<>> THEN <<"N","a","T">> ELSE str(first_date(dates)),
                         to |-> IF dates = <<>> THEN <<"N","a","T">> ELSE str(last_date(dates))],
                        [t |-> "blank"],
                        [t |-> "total_records", count |-> Len(df.rows)],
                        [t |-> "records_per_period"]>>
                        \o period_counts(dates))

(***************************************************************************)
(* handle_value_query                                                      *)
(***************************************************************************)
value_block(user_input, df, col) ==
    LET unique_vals == unique(dropna(df, col))
    IN  IF ~re_search_word(lower(col), user_input) \/ unique_vals = <<>> THEN <<>>
        ELSE IF Len(unique_vals) <= 20
        THEN <<[t |-> "values_of", col |-> col]>>
                \o [i \in 1..Len(Take(unique_vals, 15)) |->
                        [t |-> "value", val |-> str(unique_vals[i])]]
                \o (IF Len(unique_vals) > 15
                    THEN <<[t |-> "more_values", count |-> Len(unique_vals) - 15]>>
                    ELSE <<>>)
                \o <<[t |-> "blank"]>>
        ELSE <<[t |-> "unique_values", col |-> col, count |-> Len(unique_vals)],
               [t |-> "sample_values",
                vals |-> [i \in 1..10 |-> str(unique_vals[i])]],
               [t |-> "blank"]>>

\* the header always holds the word "value", so the search takes over when the
\* text has fewer than five "\n"-separated pieces: when no column gave a block
handle_value_query(user_input, df, columns) ==
    LET response == <<[t |-> "header", text |-> "Value Query Results"], [t |-> "blank"]>>
                    \o Flatten([i \in 1..Len(columns) |-> value_block(user_input, df, columns[i])])
    IN  IF Len(response) + 1 < 5
        THEN handle_comprehensive_search(user_input, df, columns)
        ELSE response

(***************************************************************************)
(* handle_list_query                                                       *)
(***************************************************************************)
handle_list_query(df, columns) ==
    <<[t |-> "all_records", count |-> Len(df.rows)], [t |-> "blank"]>>
    \o [i \in 1..Len(Take(df.rows, 20)) |->
            [t |-> "record", number |-> i, info |-> key_info(columns, df.rows[i], 4)]]
    \o (IF Len(df.rows) > 20
        THEN <<[t |-> "blank"], [t |-> "more_records", count |-> Len(df.rows) - 20]>>
        ELSE <<>>)

(***************************************************************************)
(* handle_comprehensive_summary                                            *)
(***************************************************************************)
handle_comprehensive_summary(df, columns, data_sources) ==
    LET column_line(col) ==
            [t |-> "column", col |-> col, dtype |-> df.dtype[col],
             non_null |-> count_notna(df, col), nunique |-> nunique(df, col),
             \* pct_null > 50 and len(data_sources) > 1
             mostly_unmatching |->
                (Len(df.rows) - count_notna(df, col)) * 100 > 50 * Len(df.rows)
                    /\ Len(data_sources) > 1]
        numeric_cols == Take(numeric_columns(df), 5)
        categorical_cols == Take(categorical_columns(df, columns, 10), 3)
        top_values(col) ==
            LET vc == Take(value_counts(dropna(df, col)), 3)
            IN  [i \in 1..Len(vc) |-> [val |-> str(vc[i].val), count |-> vc[i].count]]
    IN  <<[t |-> "header", text |-> "Comprehensive Data Summary"], [t |-> "blank"],
          [t |-> "total_records", count |-> Len(df.rows)],
          [t |-> "total_columns", count |-> Len(columns)]>>
        \o (IF Len(data_sources) > 1
            THEN <<[t |-> "data_sources", sources |-> data_sources]>> ELSE <<>>)
        \o <<[t |-> "blank"], [t |-> "column_information"]>>
        \o [i \in 1..Len(Take(columns, 20)) |-> column_line(columns[i])]
        \o (IF Len(columns) > 20
            THEN <<[t |-> "blank"], [t |-> "more_columns", count |-> Len(columns) - 20]>>
            ELSE <<>>)
        \o (IF numeric_cols # <<>>
            THEN <<[t |-> "blank"], [t |-> "numeric_statistics"]>>
                    \o [i \in 1..Len(numeric_cols) |->
                          [t |-> "min_max_avg", col |-> numeric_cols[i],
                           stats |-> min_max_mean(df, numeric_cols[i])]]
            ELSE <<>>)
        \o (IF categorical_cols # <<>>
            THEN <<[t |-> "blank"], [t |-> "categorical_distributions"]>>
                    \o [i \in 1..Len(categorical_cols) |->
                          [t |-> "top_values", col |-> categorical_cols[i],
                           vals |-> top_values(categorical_cols[i])]]
            ELSE <<>>)

(***************************************************************************)
(* handle_intelligent_fallback                                             *)
(***************************************************************************)
\* the lines of the general help: the kind of question each names, the intent
\* that answers this kind, and the example it gives
capability_menu ==
    <<[label |-> "Counts", intent |-> "count", example |-> <<"H","o","w"," ","m","a","n","y"," ","r","e","c","o","r","d","s"," ","a","r","e"," ","t","h","e","r","e","?">>],
      [label |-> "Statistics", intent |-> "statistics",
       example |-> <<"W","h","a","t","'","s"," ","t","h","e"," ","a","v","e","r","a","g","e"," ","o","f"," ","[","c","o","l","u","m","n","]","?">>],
      [label |-> "Search", intent |-> "search", example |-> <<"F","i","n","d"," ","r","e","c","o","r","d","s"," ","w","i","t","h"," ","[","v","a","l","u","e","]">>],
      [label |-> "Filters", intent |-> "filter",
       example |-> <<"S","h","o","w"," ","r","e","c","o","r","d","s"," ","w","h","e","r","e"," ","[","c","o","l","u","m","n","]"," ","="," ","[","v","a","l","u","e","]">>],
      [label |-> "Comparisons", intent |-> "comparison", example |-> <<"C","o","m","p","a","r","e"," ","[","c","o","l","u","m","n","]"," ","v","a","l","u","e","s">>],
      [label |-> "Trends", intent |-> "trend", example |-> <<"S","h","o","w"," ","m","e"," ","r","e","c","e","n","t"," ","r","e","c","o","r","d","s">>],
      [label |-> "Lists", intent |-> "list", example |-> <<"L","i","s","t"," ","a","l","l"," ","[","c","o","l","u","m","n","]"," ","v","a","l","u","e","s">>],
      [label |-> "Summaries", intent |-> "summary", example |-> <<"G","i","v","e"," ","m","e"," ","a","n"," ","o","v","e","r","v","i","e","w">>]>>

\* the permissive extractor: col.lower() in user_input.lower()
fallback_columns(user_input, columns) ==
    SelectSeq(columns, LAMBDA c : str_in(lower(c), lower(user_input)))

handle_intelligent_fallback(user_input, df, columns, data_sources) ==
    LET mentioned_cols == fallback_columns(user_input, columns)
        top_values(col) ==
            LET vc == Take(value_counts(dropna(df, col)), 5)
            IN  [i \in 1..Len(vc) |-> [val |-> str(vc[i].val), count |-> vc[i].count]]
        block(col) ==
            <<[t |-> "column_info", col |-> col],
              [t |-> "unique_values", col |-> col, count |-> nunique(df, col)],
              [t |-> "non_null_records", col |-> col, count |-> count_notna(df, col)],
              IF df.dtype[col] \in {"int64", "float64"}
              THEN [t |-> "min_max_avg", col |-> col, stats |-> min_max_mean(df, col)]
              ELSE [t |-> "top_values", col |-> col, vals |-> top_values(col)],
              [t |-> "blank"]>>
    IN  IF mentioned_cols # <<>>
        THEN <<[t |-> "header", text |-> "Information about mentioned columns"],
               [t |-> "blank"]>>
                \o Flatten([i \in 1..Len(Take(mentioned_cols, 5)) |-> block(mentioned_cols[i])])
        ELSE <<[t |-> "header", text |-> "I can help you with"], [t |-> "blank"],
               [t |-> "capability_menu", items |-> capability_menu], [t |-> "blank"],
               [t |-> "available_columns", cols |-> Take(columns, 10),
                more |-> IF Len(columns) > 10 THEN Len(columns) - 10 ELSE 0],
               [t |-> "blank"],
               [t |-> "total_records", count |-> Len(df.rows)]>>
                \o (IF Len(data_sources) > 1
                    THEN <<[t |-> "data_sources", sources |-> data_sources]>> ELSE <<>>)

(***************************************************************************)
(* analyze_and_answer and generate_response                                *)
(***************************************************************************)
\* the text of the chosen handler
handler_response(question_type, user_input, df, columns, mentioned_cols, data_sources) ==
    CASE question_type = "count" ->
            handle_comprehensive_count(user_input, df, columns, mentioned_cols, data_sources)
      [] question_type = "statistics" ->
            handle_comprehensive_statistics(user_input, df, columns, mentioned_cols)
      [] question_type = "search" -> handle_comprehensive_search(user_input, df, columns)
      [] question_type = "filter" -> handle_comprehensive_filter(user_input, df, columns)
      [] question_type = "comparison" ->
            handle_comprehensive_comparison(user_input, df, columns, mentioned_cols)
      [] question_type = "trend" -> handle_comprehensive_trend(user_input, df, columns)
      [] question_type = "value" -> handle_value_query(user_input, df, columns)
      [] question_type = "list" -> handle_list_query(df, columns)
      [] question_type = "summary" -> handle_comprehensive_summary(df, columns, data_sources)
      [] OTHER -> handle_intelligent_fallback(user_input, df, columns, data_sources)

\* the frame the chosen handler leaves behind: the trend handler assigns to a
\* column of the frame it is given, the other handlers assign to nothing of it
handler_frame(question_type, df, columns) ==
    IF question_type = "trend" THEN trend_frame(df, columns) ELSE df

\* the handler chosen for the question type, with the columns mentioned
answer_of(question_type, user_input, df, columns, mentioned, data_sources) ==
    [raised |-> FALSE,
     mentioned_columns |-> mentioned,
     question_type |-> question_type,
     response |-> handler_response(question_type, user_input, df, columns, mentioned,
                                   data_sources),
     df |-> handler_frame(question_type, df, columns)]

\* a column label that is the integer n, as a table read without a header row
\* has them; the labels that are strings are the lists of their characters
IntLabel(n) == <<"int", Digits[n + 1]>>

\* whether a column label is a str, so that col.lower() can be called on it
is_str(col) == ~(Len(col) = 2 /\ col[1] = "int")

\* col.lower() in the dictionary col_map fails (AttributeError) on a label that
\* is no string, before anything is answered
analyze_and_answer(user_input, df, columns, data_sources) ==
    IF \E i \in 1..Len(columns) : ~is_str(columns[i])
    THEN [raised |-> TRUE]
    ELSE answer_of(detect_question_type(user_input), user_input, df, columns,
                   mentioned_columns(user_input, columns), data_sources)

\* a faulty variant, for comparison: an empty table counts as data
usable_when_empty(df) == df # None

\* whether a table is given and has data
usable(df) == df # None /\ ~empty(df)

\* all_data: a copy of each usable table, as the object and its data
all_data_of(context, unmatching) ==
    (IF usable(context) THEN <<copy([id |-> "context_df", df |-> context])>> ELSE <<>>)
        \o (IF usable(unmatching) THEN <<copy([id |-> "unmatching_df", df |-> unmatching])>>
            ELSE <<>>)

data_sources_of(context, unmatching) ==
    (IF usable(context) THEN <<"main database">> ELSE <<>>)
        \o (IF usable(unmatching) THEN <<"unmatching uploaded data">> ELSE <<>>)

\* a faulty variant, for comparison: the nulls of a single frame are filled as well
combined_of_always_filled(all_data) ==
    LET joined == IF Len(all_data) > 1 THEN concat(all_data[1].df, all_data[2].df)
                  ELSE all_data[1].df
    IN  [id |-> IF Len(all_data) > 1 THEN "combined_df" ELSE all_data[1].id,
         df |-> fill_object_columns(joined, joined.columns)]

\* a faulty variant, for comparison: the nulls of the concatenation are left as they are
combined_of_unfilled(all_data) ==
    IF Len(all_data) > 1
    THEN [id |-> "combined_df", df |-> concat(all_data[1].df, all_data[2].df)]
    ELSE all_data[1]

\* combined_df: the concatenation with "" for the nulls of its object columns
\* when there are two frames, else the one frame of all_data itself.  pd.concat
\* does not fail on frames whose column labels are unique, as those of the
\* model are, so the except branch is not taken.
combined_of(all_data) ==
    IF Len(all_data) > 1
    THEN LET joined == concat(all_data[1].df, all_data[2].df)
         IN  [id |-> "combined_df", df |-> fill_object_columns(joined, joined.columns)]
    ELSE all_data[1]

\* what a call that reached analyze_and_answer did: that it raised, or the
\* text returned and, for the properties, the locals of the call (the normalized question, the frame
\* given to the handler and the object it is, the frame after the handler)
call_record(user_input, user_input_lower, combined, data_sources, answer) ==
    IF answer.raised
    THEN [called |-> TRUE, no_data |-> FALSE, raised |-> TRUE, raw_input |-> user_input]
    ELSE [called |-> TRUE, no_data |-> FALSE, raised |-> FALSE, raw_input |-> user_input,
          user_input |-> user_input_lower,
          data_sources |-> data_sources,
          combined_id |-> combined.id,
          combined_df |-> combined.df,
          mentioned_columns |-> answer.mentioned_columns,
          question_type |-> answer.question_type,
          df_after |-> answer.df,
          response |-> answer.response]

\* the part of generate_response after the tables are combined
answer_combined(user_input, user_input_lower, combined, data_sources) ==
    call_record(user_input, user_input_lower, combined, data_sources,
                analyze_and_answer(user_input_lower, combined.df, combined.df.columns,
                                   data_sources))

\* the part of generate_response after all_data is collected
answer_all_data(user_input, all_data, data_sources) ==
    IF all_data = <<>>
    THEN [called |-> TRUE, no_data |-> TRUE, raised |-> FALSE, raw_input |-> user_input,
          response |-> <<[t |-> "no_data_available"]>>]
    ELSE answer_combined(user_input, strip(lower(user_input)), combined_of(all_data),
                         data_sources)

generate_response(user_input, context, unmatching) ==
    answer_all_data(user_input, all_data_of(context, unmatching),
                    data_sources_of(context, unmatching))

\* a caller's table after the call: the frame the handler left, when the
\* handler was given the caller's own object
after_call(name, table, result) ==
    IF ~result.no_data /\ ~result.raised /\ result.combined_id = name
    THEN result.df_after
    ELSE table

(***************************************************************************)
(* Actions                                                                 *)
(***************************************************************************)
\* generate_response(user_input, context_df, role_hint, unmatching_df)
Call(user_input) ==
    /\ call' = generate_response(user_input, context_df, unmatching_df)
    /\ context_df' = after_call("context_df", context_df, call')
    /\ unmatching_df' = after_call("unmatching_df", unmatching_df, call')
    /\ UNCHANGED <<session_state, rerun>>

\* the first call made on the tables
FirstCall(user_input) == ~call.called /\ Call(user_input)

(***************************************************************************)
(* simple_ai_chat: one run of the Streamlit script per action               *)
(***************************************************************************)
\* chat_key = f"simple_ai_chat_{role_hint or 'default'}"
chat_key(role_hint) ==
    <<"simple_ai_chat", IF role_hint = "None" THEN "default" ELSE role_hint>>

welcome_msg == [role |-> "assistant", content |-> [lines |-> <<[t |-> "welcome"]>>]]

\* session_state after the top of the script: the history exists and, when it
\* was empty, holds the welcome message; this is the history that is displayed
displayed_state(role_hint) ==
    LET key == chat_key(role_hint)
        initialized == IF key \in DOMAIN session_state THEN session_state
                       ELSE [k \in DOMAIN session_state \cup {key} |->
                                IF k = key THEN <<>> ELSE session_state[k]]
    IN  IF initialized[key] = <<>>
        THEN [initialized EXCEPT ![key] = <<welcome_msg>>]
        ELSE initialized

\* a run without input: the first run of a page, and the run that st.rerun()
\* starts
Render(role_hint) ==
    /\ rerun \in {"none", role_hint}
    /\ session_state' = displayed_state(role_hint)
    /\ rerun' = "none"
    /\ UNCHANGED <<context_df, unmatching_df, call>>

\* a run in which the user has sent user_input (a non-empty text): the turn of
\* the user is appended, then the answer, and a rerun is asked for; when
\* generate_response raises, the run ends there, with the turn of the user
\* stored and no rerun asked for
UserInput(role_hint, user_input) ==
    /\ rerun = "none"
    /\ user_input # <<>>
    /\ call' = generate_response(user_input, context_df, unmatching_df)
    /\ session_state' =
            [displayed_state(role_hint) EXCEPT ![chat_key(role_hint)] =
                @ \o <<[role |-> "user", content |-> [text |-> user_input]]>>
                  \o (IF call'.raised THEN <<>>
                      ELSE <<[role |-> "assistant", content |-> [lines |-> call'.response]]>>)]
    /\ context_df' = after_call("context_df", context_df, call')
    /\ unmatching_df' = after_call("unmatching_df", unmatching_df, call')
    /\ rerun' = IF call'.raised THEN "none" ELSE role_hint

\* a run in which the Clear Chat button was clicked
ClearChat(role_hint) ==
    /\ rerun = "none"
    /\ session_state' = [displayed_state(role_hint) EXCEPT ![chat_key(role_hint)] = <<>>]
    /\ rerun' = role_hint
    /\ UNCHANGED <<context_df, unmatching_df, call>>

(***************************************************************************)
(* Inputs: the tables and the questions of the checked runs                *)
(***************************************************************************)
\* the most words a generated question has
MaxWords == 2

\* a DataFrame from its column labels, their dtypes and its rows, each row the
\* list of its cells in column order
Frame(columns, dtypes, rows) ==
    LET pos(c) == CHOOSE i \in 1..Len(columns) : columns[i] = c
    IN  [columns |-> columns,
         dtype |-> [c \in Range(columns) |-> dtypes[pos(c)]],
         rows |-> [r \in 1..Len(rows) |-> [c \in Range(columns) |-> rows[r][pos(c)]]]]

\* the rows whose i-th cell is drawn from the i-th domain
RowsOver(domains) ==
    {r \in [1..Len(domains) -> UNION Range(domains)] : \A i \in 1..Len(domains) : r[i] \in domains[i]}

\* the frames of 1..n rows over the given columns
FramesOf(columns, dtypes, domains, n) ==
    {Frame(columns, dtypes, rows) : rows \in UNION {[1..k -> RowsOver(domains)] : k \in 1..n}}

\* the questions made of 1..n words of a vocabulary, single spaces between
Questions(vocabulary, n) ==
    {JoinWords(ws) : ws \in UNION {[1..k -> vocabulary] : k \in 1..n}}

\* an incident table as the dashboard loads it
IncidentsFrame ==
    Frame(<<<<"i","d">>, <<"S","e","v","e","r","i","t","y">>, <<"s","t","a","t","u","s">>, <<"c","r","e","a","t","e","d","_","a","t">>>>,
          <<"int64", "object", "object", "object">>,
          <<<<Integer(1), Str(<<"H","i","g","h">>), Str(<<"o","p","e","n">>), Str(<<"2","0","2","4","-","0","1","-","0","5">>)>>,
            <<Integer(2), Str(<<"H","i","g","h">>), Str(<<"c","l","o","s","e","d">>), Str(<<"2","0","2","4","-","0","2","-","1","1">>)>>,
            <<Integer(3), Str(<<"L","o","w">>), NaN, Str(<<"n","/","a">>)>>>>)

\* two uploads whose column labels differ in case only
StatusUpperFrame ==
    Frame(<<<<"S","t","a","t","u","s">>, <<"o","w","n","e","r">>>>, <<"object", "object">>,
          <<<<Str(<<"o","p","e","n">>), Str(<<"a","n","a">>)>>, <<Str(<<"c","l","o","s","e","d">>), Str(<<"b","o">>)>>>>)

StatusLowerFrame ==
    Frame(<<<<"s","t","a","t","u","s">>>>, <<"object">>, <<<<Str(<<"o","p","e","n">>)>>, <<Str(<<"p","e","n","d","i","n","g">>)>>>>)

\* words of every keyword list, words that hold a keyword of another list,
\* column names and near misses of them, in the casing a user may type
ClassifyVocabulary ==
    {<<"H","o","w"," ","m","a","n","y">>, <<"c","o","u","n","t">>, <<"T","O","T","A","L">>, <<"a","v","e","r","a","g","e">>, <<"s","u","m">>, <<"s","t","a","t","i","s","t","i","c","s">>, <<"s","h","o","w">>, <<"w","h","a","t">>,
     <<"w","i","t","h">>, <<"c","o","m","p","a","r","e">>, <<"r","e","c","e","n","t">>, <<"l","a","s","t">>, <<"v","a","l","u","e">>, <<"g","i","v","e"," ","m","e">>, <<"a","l","l">>, <<"l","i","s","t">>,
     <<"s","u","m","m","a","r","y">>, <<"o","v","e","r","v","i","e","w">>, <<"d","e","s","c","r","i","b","e">>, <<"r","e","c","o","r","d","s">>, <<"h","e","l","l","o">>, <<"s","t","a","t","u","s">>, <<"s","t","a","t","u","s","s">>,
     <<"S","e","v","e","r","i","t","y">>}

ClassifyQuestions == Questions(ClassifyVocabulary, MaxWords)

InitClassify ==
    /\ \E tables \in {<<IncidentsFrame, None>>, <<StatusUpperFrame, StatusLowerFrame>>} :
            context_df = tables[1] /\ unmatching_df = tables[2]
    /\ session_state = <<>>
    /\ rerun = "none"
    /\ call = [called |-> FALSE]

NextClassify == \E q \in ClassifyQuestions : FirstCall(q)

SpecClassify == InitClassify /\ [][NextClassify]_vars

\* the most rows a generated table of the combining runs has
MaxCombineRows == 2

\* pd.DataFrame(): no columns, no rows
NoColumnsFrame == Frame(<<>>, <<>>, <<>>)

\* a table whose rows were all filtered away
NoRowsFrame == Frame(<<<<"s","t","a","t","u","s">>, <<"a","m","o","u","n","t">>>>, <<"object", "float64">>, <<>>)

\* the main tables: a text column and a numeric column, nulls in both
MainFrames ==
    FramesOf(<<<<"s","t","a","t","u","s">>, <<"a","m","o","u","n","t">>>>, <<"object", "float64">>,
             <<{Str(<<"o","p","e","n">>), NaN}, {Float(10), NaN}>>, MaxCombineRows)

\* the uploads: columns the main table lacks, a column it shares under another
\* dtype, and the main table's own shape
UploadFrames ==
    {Frame(<<<<"a","m","o","u","n","t">>, <<"o","w","n","e","r">>>>, <<"int64", "object">>,
           <<<<Integer(5), Str(<<"a","n","a">>)>>, <<Integer(7), NaN>>>>),
     Frame(<<<<"s","t","a","t","u","s">>>>, <<"object">>, <<<<NaN>>, <<Str(<<"c","l","o","s","e","d">>)>>>>),
     Frame(<<<<"s","t","a","t","u","s">>, <<"c","r","e","a","t","e","d","_","a","t">>>>, <<"int64", "object">>,
           <<<<Integer(1), Str(<<"2","0","2","4","-","0","3","-","0","9">>)>>>>),
     Frame(<<<<"s","t","a","t","u","s">>, <<"a","m","o","u","n","t">>>>, <<"object", "float64">>,
           <<<<Str(<<"o","p","e","n">>), NaN>>, <<NaN, Float(20)>>>>)}

CombineQuestions == {<<"H","o","w"," ","m","a","n","y">>, <<"s","h","o","w"," ","o","p","e","n">>, <<" ","R","e","c","e","n","t"," ","r","e","c","o","r","d","s">>, <<"s","u","m","m","a","r","y">>}

InitCombine ==
    /\ context_df \in {None, NoColumnsFrame, NoRowsFrame} \cup MainFrames
    /\ unmatching_df \in {None, NoRowsFrame} \cup UploadFrames
    /\ session_state = <<>>
    /\ rerun = "none"
    /\ call = [called |-> FALSE]

NextCombine == \E q \in CombineQuestions : FirstCall(q)

SpecCombine == InitCombine /\ [][NextCombine]_vars

\* the most questions asked in one chat before it is cleared
MaxQuestions == 3

\* an upload with other columns than the incident table
AssetsFrame ==
    Frame(<<<<"i","d">>, <<"o","w","n","e","r">>>>, <<"int64", "object">>,
          <<<<Integer(7), Str(<<"l","o","w"," ","p","r","i","o","r","i","t","y">>)>>, <<Integer(8), NaN>>>>)

\* a table whose text columns hold the word the search looks for next to a
\* date that does not parse
TicketsFrame ==
    Frame(<<<<"t","i","c","k","e","t">>, <<"o","p","e","n","e","d","_","d","a","t","e">>, <<"n","o","t","e">>>>, <<"object", "object", "object">>,
          <<<<Str(<<"T","-","1">>), Str(<<"2","0","2","4","-","0","5","-","0","2">>), Str(<<"l","o","w">>)>>,
            <<Str(<<"T","-","2">>), Str(<<"a","b","o","u","t"," ","l","o","w"," ","t","i","d","e">>), NaN>>>>)

SessionTables ==
    {<<IncidentsFrame, None>>, <<IncidentsFrame, AssetsFrame>>, <<None, TicketsFrame>>,
     <<TicketsFrame, None>>}

SessionQuestions == {<<"F","i","n","d"," ","l","o","w">>, <<"l","a","t","e","s","t"," ","r","e","c","o","r","d","s">>, <<"t","r","e","n","d">>, <<"s","u","m","m","a","r","y">>}

\* the length of a history that holds the welcome message and n questions
\* with their answers
HistoryLength(n) == 1 + 2 * n

InitSession ==
    /\ \E tables \in SessionTables : context_df = tables[1] /\ unmatching_df = tables[2]
    /\ session_state = <<>>
    /\ rerun = "none"
    /\ call = [called |-> FALSE]

\* the chat of the page (no role hint given)
Ask ==
    \E q \in SessionQuestions :
        /\ Len(displayed_state("None")[chat_key("None")]) < HistoryLength(MaxQuestions)
        /\ UserInput("None", q)

Show == Render("None")

Clear == ClearChat("None")

NextSession == Ask \/ Show \/ Clear

SpecSession == InitSession /\ [][NextSession]_vars

\* the most rows a generated table of the statistics runs has
MaxStatsRows == 3

StatsFrames ==
    FramesOf(<<<<"i","d">>, <<"a","m","o","u","n","t">>>>, <<"int64", "float64">>,
             <<{Integer(1), Integer(4)}, {Float(10), Float(20), NaN}>>, MaxStatsRows)

\* an upload that shares the numeric column and lacks the other
AmountsFrame ==
    Frame(<<<<"a","m","o","u","n","t">>, <<"l","a","b","e","l">>>>, <<"int64", "object">>, <<<<Integer(3), Str(<<"x">>)>>>>)

StatsQuestions == {<<"a","v","e","r","a","g","e"," ","a","m","o","u","n","t">>, <<"m","e","a","n">>, <<"M","a","x"," ","o","f"," ","i","d"," ","a","n","d"," ","a","m","o","u","n","t">>, <<"s","t","a","t","s"," ","s","t","a","t","u","s">>}

InitStats ==
    /\ context_df \in StatsFrames
    /\ unmatching_df \in {None, AmountsFrame}
    /\ session_state = <<>>
    /\ rerun = "none"
    /\ call = [called |-> FALSE]

NextStats == \E q \in StatsQuestions : FirstCall(q)

SpecStats == InitStats /\ [][NextStats]_vars


\* the most rows a generated table of the counting runs has
MaxCountRows == 2

\* tables of two text columns with nulls and values that differ from a
\* vocabulary value in case and surrounding blanks only
CountFrames ==
    FramesOf(<<<<"S","e","v","e","r","i","t","y">>, <<"s","t","a","t","u","s">>>>, <<"object", "object">>,
             <<{Str(<<"H","i","g","h">>), Str(<<" ","h","i","g","h"," ">>), Str(<<"L","o","w">>), NaN}, {Str(<<"o","p","e","n">>), NaN}>>,
             MaxCountRows)

\* Severity = [High, High, Low]
SeverityFrame ==
    Frame(<<<<"i","d">>, <<"S","e","v","e","r","i","t","y">>>>, <<"int64", "object">>,
          <<<<Integer(1), Str(<<"H","i","g","h">>)>>, <<Integer(2), Str(<<"H","i","g","h">>)>>,
            <<Integer(3), Str(<<"L","o","w">>)>>>>)

CountQuestions ==
    {<<"h","o","w"," ","m","a","n","y"," ","S","e","v","e","r","i","t","y"," ","h","i","g","h">>, <<"H","o","w"," ","m","a","n","y">>, <<"c","o","u","n","t"," ","s","t","a","t","u","s">>, <<"c","o","m","p","a","r","e"," ","S","e","v","e","r","i","t","y">>,
     <<"h","o","w"," ","m","a","n","y"," ","s","e","v","e","r","i","t","y"," ","c","r","i","t","i","c","a","l">>, <<"t","o","t","a","l"," ","s","e","v","e","r","i","t","y"," ","l","o","w"," ","h","i","g","h">>, <<"n","u","m","b","e","r"," ","o","f"," ","s","t","a","t","u","s"," ","o","p","e","n">>}

InitCount ==
    /\ context_df \in CountFrames \cup {SeverityFrame}
    /\ unmatching_df \in {None, AssetsFrame}
    /\ session_state = <<>>
    /\ rerun = "none"
    /\ call = [called |-> FALSE]

NextCount == \E q \in CountQuestions : FirstCall(q)

SpecCount == InitCount /\ [][NextCount]_vars

\* the most rows a generated table of the filtering runs has
MaxFilterRows == 2

\* tables of two text columns and a numeric column, nulls in two of them
FilterFrames ==
    FramesOf(<<<<"S","e","v","e","r","i","t","y">>, <<"s","t","a","t","u","s">>, <<"a","m","o","u","n","t">>>>, <<"object", "object", "float64">>,
             <<{Str(<<"H","i","g","h">>), Str(<<"L","o","w">>)}, {Str(<<"o","p","e","n">>), NaN}, {Float(5), Float(20), NaN}>>,
             MaxFilterRows)

FilterQuestions ==
    {<<"w","h","i","c","h"," ","s","e","v","e","r","i","t","y"," ","h","i","g","h">>, <<"r","e","c","o","r","d","s"," ","w","h","e","r","e"," ","s","t","a","t","u","s"," ","o","p","e","n"," ","a","n","d"," ","s","e","v","e","r","i","t","y"," ","l","o","w">>,
     <<"w","h","i","c","h"," ","a","m","o","u","n","t"," ","g","r","e","a","t","e","r"," ","t","h","a","n"," ","1","0"," ","w","i","t","h"," ","s","t","a","t","u","s"," ","o","p","e","n">>, <<"w","h","a","t"," ","a","m","o","u","n","t"," ","<"," ","1","0",".","5">>, <<"w","h","o">>}

InitFilter ==
    /\ context_df \in FilterFrames
    /\ unmatching_df \in {None, AssetsFrame}
    /\ session_state = <<>>
    /\ rerun = "none"
    /\ call = [called |-> FALSE]

NextFilter == \E q \in FilterQuestions : FirstCall(q)

SpecFilter == InitFilter /\ [][NextFilter]_vars

\* the number of rows of a table of the trend runs: one more than the 10 rows
\* the handler lists
MaxTrendRows == 11

\* the date of row i of a trend table: distinct days of one month, not in the
\* order of the rows
trend_day(i) == <<"2","0","2","4","-","0","1","-">> \o TwoDigits(((5 * i) % 13) + 1)

\* the table whose rows at the positions in unparseable hold a text that names
\* no date
TrendFrame(unparseable) ==
    Frame(<<<<"i","d">>, <<"c","r","e","a","t","e","d","_","a","t">>>>, <<"int64", "object">>,
          [i \in 1..MaxTrendRows |->
              <<Integer(i), IF i \in unparseable THEN Str(<<"u","n","k","n","o","w","n">>) ELSE Str(trend_day(i))>>])

\* the tables with at most two unparseable dates
TrendFrames ==
    {TrendFrame(unparseable) : unparseable \in {s \in SUBSET (1..MaxTrendRows) : Cardinality(s) <= 2}}

TrendQuestions == {<<"r","e","c","e","n","t"," ","r","e","c","o","r","d","s">>, <<"l","a","t","e","s","t">>, <<"o","l","d","e","s","t"," ","r","e","c","o","r","d","s">>, <<"e","a","r","l","i","e","s","t">>, <<"t","r","e","n","d">>}

InitTrend ==
    /\ context_df \in TrendFrames
    /\ unmatching_df = None
    /\ session_state = <<>>
    /\ rerun = "none"
    /\ call = [called |-> FALSE]

NextTrend == \E q \in TrendQuestions : FirstCall(q)

SpecTrend == InitTrend /\ [][NextTrend]_vars

\* the number of columns of a table of the wide statistics runs: one more
\* than the 5 columns the handler takes of the numeric columns
MaxStatsColumns == 6

\* the label of the i-th column of a wide table
wide_column(i) == <<"q">> \o str_of_nat(i)

\* the wide table whose columns at the positions in numeric are whole numbers
\* and whose other columns are text
WideFrame(numeric) ==
    Frame([i \in 1..MaxStatsColumns |-> wide_column(i)],
          [i \in 1..MaxStatsColumns |-> IF i \in numeric THEN "int64" ELSE "object"],
          [r \in 1..2 |->
              [i \in 1..MaxStatsColumns |->
                  IF i \in numeric THEN Integer(r + i) ELSE Str(<<"x">>)]])

WideFrames == {WideFrame(numeric) : numeric \in SUBSET (1..MaxStatsColumns)}

\* questions that name every column, two columns, and no column
WideQuestions ==
    {JoinWords(<<<<"m","e","a","n"," ","o","f">>>> \o [i \in 1..MaxStatsColumns |-> wide_column(i)]),
     <<"a","v","e","r","a","g","e"," ","q","2"," ","a","n","d"," ","q","1">>, <<"s","t","a","t","s">>}

InitWide ==
    /\ context_df \in WideFrames
    /\ unmatching_df = None
    /\ session_state = <<>>
    /\ rerun = "none"
    /\ call = [called |-> FALSE]

NextWide == \E q \in WideQuestions : FirstCall(q)

SpecWide == InitWide /\ [][NextWide]_vars

\* every keyword of the nine keyword lists
AllKeywords ==
    UNION {Range(words) : words \in {count_words, stats_words, search_words, filter_words,
                                      compare_words, trend_words, value_words, list_words,
                                      summary_words}}

\* the examples of the general help and every keyword alone
MenuQuestions == {capability_menu[i].example : i \in 1..Len(capability_menu)} \cup AllKeywords

InitMenu ==
    /\ \E tables \in {<<IncidentsFrame, None>>, <<IncidentsFrame, AssetsFrame>>} :
            context_df = tables[1] /\ unmatching_df = tables[2]
    /\ session_state = <<>>
    /\ rerun = "none"
    /\ call = [called |-> FALSE]

NextMenu == \E q \in MenuQuestions : FirstCall(q)

SpecMenu == InitMenu /\ [][NextMenu]_vars

\* the most questions asked in one conversation of the runs with two
\* conversations
MaxChatQuestions == 2

\* the conversations of two pages
RoleHints == {"cyber_incident", "it_ticket"}

\* a table read without a header row: its column labels are the integers 0, 1
HeaderlessFrame ==
    Frame(<<IntLabel(0), IntLabel(1)>>, <<"object", "int64">>,
          <<<<Str(<<"o","p","e","n">>), Integer(3)>>, <<Str(<<"c","l","o","s","e","d">>), Integer(4)>>>>)

ChatTables ==
    {<<IncidentsFrame, None>>, <<None, HeaderlessFrame>>, <<IncidentsFrame, HeaderlessFrame>>}

ChatQuestions == {<<"H","o","w"," ","m","a","n","y">>, <<"s","u","m","m","a","r","y">>}

InitChat ==
    /\ \E tables \in ChatTables : context_df = tables[1] /\ unmatching_df = tables[2]
    /\ session_state = <<>>
    /\ rerun = "none"
    /\ call = [called |-> FALSE]

AskIn(role_hint) ==
    \E q \in ChatQuestions :
        /\ Len(displayed_state(role_hint)[chat_key(role_hint)]) < HistoryLength(MaxChatQuestions)
        /\ UserInput(role_hint, q)

NextChat == \E role_hint \in RoleHints : AskIn(role_hint) \/ Render(role_hint) \/ ClearChat(role_hint)

SpecChat == InitChat /\ [][NextChat]_vars
(***************************************************************************)
(* Properties                                                              *)
(***************************************************************************)
\* a call that reached the handlers
Answered == call.called /\ ~call.no_data /\ ~call.raised

\* a table that is given and has at least one row and one column
HasData(table) == table # None /\ table.rows # <<>> /\ table.columns # <<>>

\* the keyword lists in the order of priority, with the intent of each
CategoryOrder ==
    <<[intent |-> "count", words |-> count_words],
      [intent |-> "statistics", words |-> stats_words],
      [intent |-> "search", words |-> search_words],
      [intent |-> "filter", words |-> filter_words],
      [intent |-> "comparison", words |-> compare_words],
      [intent |-> "trend", words |-> trend_words],
      [intent |-> "value", words |-> value_words],
      [intent |-> "list", words |-> list_words],
      [intent |-> "summary", words |-> summary_words]>>

\* the intent of the first category with a keyword in the question
FirstMatchingIntent(q) ==
    LET matching == {i \in 1..Len(CategoryOrder) : any_word_in(CategoryOrder[i].words, q)}
    IN  IF matching = {} THEN "general" ELSE CategoryOrder[SetMin(matching)].intent

\* C1: the intent of a question is that of the first category, in the order
\* count > statistics > search > filter > comparison > trend > value > list >
\* summary, one of whose keywords is a substring of the normalized question,
\* and "general" when there is none; a question holding a count keyword is a
\* count question whatever else it holds.
C1_IntentIsFirstMatchingCategory ==
    Answered =>
        /\ call.question_type = FirstMatchingIntent(call.user_input)
        /\ (any_word_in(count_words, call.user_input) => call.question_type = "count")

\* a count question that also holds a statistics keyword and a search keyword
C1_Witness ==
    /\ Answered
    /\ any_word_in(count_words, call.user_input)
    /\ any_word_in(stats_words, call.user_input)
    /\ call.question_type = "count"

\* C2: when neither table is given with data (each is absent or empty), the
\* call returns the no-data message and neither classifies the question nor
\* runs a handler.
C2_NoDataMessage ==
    (call.called /\ ~HasData(context_df) /\ ~HasData(unmatching_df)) =>
        /\ call.no_data
        /\ call.response = <<[t |-> "no_data_available"]>>
        /\ "question_type" \notin DOMAIN call
        /\ "df_after" \notin DOMAIN call

\* a call made with a main table without rows and no upload
C2_Witness == call.called /\ context_df = NoRowsFrame /\ unmatching_df = None

\* the one usable table of the two, when there is exactly one
OnlyUsable == IF HasData(context_df) THEN context_df ELSE unmatching_df

\* C3: when exactly one table has data, the frame the handlers are given is
\* that table as it is (columns, order, rows, values, nulls left null) and
\* the list of sources holds the label of that table alone.
C3_SingleTableUnchanged ==
    (call.called /\ (HasData(context_df) # HasData(unmatching_df))) =>
        /\ ~call.no_data
        /\ call.combined_df = OnlyUsable
        /\ call.data_sources =
                IF HasData(context_df) THEN <<"main database">> ELSE <<"unmatching uploaded data">>

\* a call on an upload alone that has a null in a text column
C3_Witness ==
    /\ call.called
    /\ ~HasData(context_df)
    /\ HasData(unmatching_df)
    /\ \E c \in Range(unmatching_df.columns) :
            /\ unmatching_df.dtype[c] = "object"
            /\ \E i \in 1..Len(unmatching_df.rows) : unmatching_df.rows[i][c] = NaN

\* a missing entry: null, or the empty string that stands for it in a text
\* column of a concatenation
IsMissing(v) == v = NaN \/ v = Str(<<>>)

\* the value a cell of a source has in the unified table: a number keeps its
\* amount, a missing entry stays missing, any other value is the same
SameValue(u, v) ==
    IF v = NaN THEN IsMissing(u)
    ELSE IF IsNumber(v) THEN IsNumber(u) /\ u.n = v.n
    ELSE u = v

\* the rows first..first+Len(src.rows)-1 of the unified table are the rows of
\* src, missing where src has no such column
RowsKept(unified, src, first) ==
    \A i \in 1..Len(src.rows) : \A c \in Range(unified.columns) :
        IF c \in Range(src.columns)
        THEN SameValue(unified.rows[first + i - 1][c], src.rows[i][c])
        ELSE IsMissing(unified.rows[first + i - 1][c])

\* C4: when both tables have data, the unified table has the union of their
\* columns and the sum of their rows: the rows of the main table, then those
\* of the upload, each with its values in the columns its source has and
\* missing in the others.
C4_OuterUnion ==
    (call.called /\ HasData(context_df) /\ HasData(unmatching_df)) =>
        /\ Range(call.combined_df.columns) =
                Range(context_df.columns) \cup Range(unmatching_df.columns)
        /\ Len(call.combined_df.columns) = Cardinality(Range(call.combined_df.columns))
        /\ Len(call.combined_df.rows) = Len(context_df.rows) + Len(unmatching_df.rows)
        /\ RowsKept(call.combined_df, context_df, 1)
        /\ RowsKept(call.combined_df, unmatching_df, Len(context_df.rows) + 1)

\* a call on two tables each of which has a column the other lacks
C4_Witness ==
    /\ call.called /\ HasData(context_df) /\ HasData(unmatching_df)
    /\ Range(context_df.columns) \ Range(unmatching_df.columns) # {}
    /\ Range(unmatching_df.columns) \ Range(context_df.columns) # {}

\* the entry of row i, column c of the unified table is missing in its source
MissingInSource(i, c) ==
    LET n == Len(context_df.rows)
        src == IF i <= n THEN context_df ELSE unmatching_df
        r == IF i <= n THEN i ELSE i - n
    IN  c \notin Range(src.columns) \/ src.rows[r][c] = NaN

\* C5: after two tables are combined no text column holds a null (each
\* missing entry is the empty string) and each missing entry of a numeric
\* column is null.
C5_TextNullsBecomeEmpty ==
    (call.called /\ HasData(context_df) /\ HasData(unmatching_df)) =>
        \A c \in Range(call.combined_df.columns) : \A i \in 1..Len(call.combined_df.rows) :
            /\ call.combined_df.dtype[c] = "object" =>
                    /\ call.combined_df.rows[i][c] # NaN
                    /\ MissingInSource(i, c) => call.combined_df.rows[i][c] = Str(<<>>)
            /\ (call.combined_df.dtype[c] \in NumericDtypes /\ MissingInSource(i, c)) =>
                    call.combined_df.rows[i][c] = NaN

\* a combination with a text column and a numeric column that each have a
\* missing entry
C5_Witness ==
    /\ call.called /\ HasData(context_df) /\ HasData(unmatching_df)
    /\ \E c, d \in Range(call.combined_df.columns) : \E i, j \in 1..Len(call.combined_df.rows) :
            /\ call.combined_df.dtype[c] = "object" /\ MissingInSource(i, c)
            /\ call.combined_df.dtype[d] \in NumericDtypes /\ MissingInSource(j, d)

\* the columns whose lower-cased name is in the question as a whole word, in
\* the order of the table
WholeWordColumns(user_input, columns) ==
    SelectSeq(columns, LAMBDA c : re_search_word(lower(c), user_input))

\* C6: the reference set holds exactly the columns whose lower-cased name is
\* in the question as a whole word, each once, in the table's order and
\* casing ("statuss" and "statistics" do not mention the column "status").
C6_ReferenceSetIsWholeWordColumns ==
    Answered =>
        call.mentioned_columns = WholeWordColumns(call.user_input, call.combined_df.columns)

\* C7: a handler leaves the frame it is given as it was: columns, values and
\* types.
C7_HandlersReadOnly == Answered => call.df_after = call.combined_df

\* C8: no call changes the caller's tables, whatever the question and whether
\* one table or two are given.
C8_CallerTablesUnchanged ==
    [][context_df' = context_df /\ unmatching_df' = unmatching_df]_vars

\* a trend question answered on a single table, whose handler has replaced a
\* column of the frame it was given
C8_Witness ==
    /\ Answered
    /\ call.question_type = "trend"
    /\ Len(call.data_sources) = 1
    /\ call.df_after # call.combined_df

\* C9: in a chat, a question asked again gets the same text as before,
\* whatever was asked in between.
C9_SameQuestionSameAnswer ==
    \A key \in DOMAIN session_state :
        LET history == session_state[key]
        IN  \A i, j \in 1..(Len(history) - 1) :
                (/\ history[i].role = "user"
                 /\ history[j].role = "user"
                 /\ history[i].content = history[j].content)
                    => history[i + 1] = history[j + 1]

\* a search asked twice with a trend question answered in between
C9_Witness ==
    \E key \in DOMAIN session_state :
        LET history == session_state[key]
        IN  /\ Len(history) = 7
            /\ history[2].content = [text |-> <<"F","i","n","d"," ","l","o","w">>]
            /\ history[4].content = [text |-> <<"l","a","t","e","s","t"," ","r","e","c","o","r","d","s">>]
            /\ history[6].content = [text |-> <<"F","i","n","d"," ","l","o","w">>]
            /\ \E n \in 1..Len(history[3].content.lines) :
                    history[3].content.lines[n].t = "found"

\* the line of kind t that the response prints for column col
StatLine(t, col) ==
    LET at == {n \in 1..Len(call.response) :
                    call.response[n].t = t /\ call.response[n].col = col}
    IN  call.response[SetMin(at)]

HasStatLine(t, col) ==
    \E n \in 1..Len(call.response) :
        call.response[n].t = t /\ "col" \in DOMAIN call.response[n] /\ call.response[n].col = col

\* the numeric columns the statistics handler analyses that hold a value
AnalysedColumns ==
    {c \in Range(statistics_columns(call.combined_df, call.mentioned_columns)) :
        count_notna(call.combined_df, c) > 0}

\* C10: for every numeric column the statistics handler analyses that has a
\* non-null value, Count is the number of non-null entries, Mean is the mean
\* of the non-null entries (to two decimals) and Min <= Mean <= Max.
C10_StatisticsOverNonNull ==
    (Answered /\ call.question_type = "statistics") =>
        \A c \in AnalysedColumns :
            LET present == dropna(call.combined_df, c)
            IN  /\ \A t \in {"stat_count", "stat_mean", "stat_min", "stat_max"} : HasStatLine(t, c)
                /\ StatLine("stat_count", c).count = Len(present)
                /\ StatLine("stat_mean", c).hundredths =
                        RoundDiv(100 * SumSeq([i \in 1..Len(present) |-> present[i].n]),
                                 Len(present))
                /\ StatLine("stat_min", c).hundredths <= StatLine("stat_mean", c).hundredths
                /\ StatLine("stat_mean", c).hundredths <= StatLine("stat_max", c).hundredths

\* "average amount" on amount = [10, 20, null]: count 2, mean 15.00
C10_Witness ==
    /\ Answered
    /\ call.user_input = <<"a","v","e","r","a","g","e"," ","a","m","o","u","n","t">>
    /\ Len(call.combined_df.rows) = 3
    /\ [i \in 1..3 |-> call.combined_df.rows[i][<<"a","m","o","u","n","t">>]] = <<Float(10), Float(20), NaN>>
    /\ StatLine("stat_count", <<"a","m","o","u","n","t">>).count = 2
    /\ StatLine("stat_mean", <<"a","m","o","u","n","t">>).hundredths = 1500

\* the positions of the headers of the value-count breakdowns of a response
BreakdownHeaders ==
    {n \in 1..Len(call.response) : call.response[n].t \in {"count_by", "distribution", "comparison"}}

\* the "- value: count (pct%)" lines that follow the header at position n
BreakdownLines(n) ==
    LET stop == SetMin({m \in (n + 1)..(Len(call.response) + 1) :
                    m > Len(call.response) \/ call.response[m].t # "value_count"})
    IN  [i \in 1..(stop - n - 1) |-> call.response[n + i]]

\* the sum of the printed percentages of a breakdown, in tenths of a percent
PercentSum(lines) == SumSeq([i \in 1..Len(lines) |-> lines[i].pct])

\* the breakdown under the header at n shows every value of its column
FullBreakdown(n) ==
    Len(BreakdownLines(n)) = nunique(call.combined_df, call.response[n].col)

\* C11: the percentages of a full value-count breakdown printed by the count
\* handler or the comparison handler sum to 100% within the rounding of the
\* printed figures (0.05 per line), also for a column that has nulls.
C11_PercentagesSumTo100 ==
    (Answered /\ call.question_type \in {"count", "comparison"}) =>
        \A n \in BreakdownHeaders :
            FullBreakdown(n) =>
                LET lines == BreakdownLines(n)
                    off == PercentSum(lines) - 1000
                IN  2 * (IF off < 0 THEN -off ELSE off) <= Len(lines)

\* the "col = 'Value': count" lines the response prints for column col
ColumnValueLines(col) ==
    SelectSeq(call.response, LAMBDA line : line.t = "column_value" /\ line.col = col)

\* the number of non-null entries of col that equal val after lower-casing
\* and trimming
NormalizedCount(col, val) ==
    Cardinality({i \in 1..Len(call.combined_df.rows) :
        /\ call.combined_df.rows[i][col] # NaN
        /\ strip(lower(str(call.combined_df.rows[i][col]))) = val})

\* the vocabulary values that are whole words of the question
ValuesAsked == SelectSeq(status_values, LAMBDA val : re_search_word(val, call.user_input))

\* the columns whose lower-cased name is a whole word of the question
ColumnsAsked ==
    {c \in Range(call.combined_df.columns) : re_search_word(lower(c), call.user_input)}

\* C12 as stated: in a count answer, for every column and every vocabulary
\* value that are both whole words of the question, the answer reports the
\* number of non-null entries of the column that equal the value after
\* lower-casing and trimming, and at most one such count per column.
C12_EveryAskedValueCounted ==
    (Answered /\ call.question_type = "count") =>
        \A c \in ColumnsAsked :
            /\ Len(ColumnValueLines(c)) <= 1
            /\ \A v \in Range(ValuesAsked) :
                    \E n \in 1..Len(ColumnValueLines(c)) :
                        /\ ColumnValueLines(c)[n].val = title(v)
                        /\ ColumnValueLines(c)[n].count = NormalizedCount(c, v)

\* the asked values that some non-null entry of col equals, in the order of
\* the vocabulary
ValuesFound(col) == SelectSeq(ValuesAsked, LAMBDA val : NormalizedCount(col, val) > 0)

\* C12: in a count answer, for every column whose name is a whole word of the
\* question, the answer reports one count when some asked vocabulary value is
\* found in the column: that of the first such value in vocabulary order, the
\* number of non-null entries that equal it after lower-casing and trimming;
\* it reports no column = value count when no asked value is found.
C12_FirstFoundValueCounted ==
    (Answered /\ call.question_type = "count") =>
        \A c \in ColumnsAsked :
            IF ValuesFound(c) = <<>> THEN ColumnValueLines(c) = <<>>
            ELSE /\ Len(ColumnValueLines(c)) = 1
                 /\ ColumnValueLines(c)[1].val = title(ValuesFound(c)[1])
                 /\ ColumnValueLines(c)[1].count = NormalizedCount(c, ValuesFound(c)[1])

\* "how many Severity high" on Severity = [High, High, Low]: count 2
C12_Witness ==
    /\ Answered
    /\ call.raw_input = <<"h","o","w"," ","m","a","n","y"," ","S","e","v","e","r","i","t","y"," ","h","i","g","h">>
    /\ context_df = SeverityFrame
    /\ ColumnValueLines(<<"S","e","v","e","r","i","t","y">>) =
            <<[t |-> "column_value", col |-> <<"S","e","v","e","r","i","t","y">>, val |-> <<"H","i","g","h">>, count |-> 2]>>

\* C13: no answer is empty or only its section header: a handler whose
\* columns are missing or hold nothing but nulls says so or gives another
\* analysis (the statistics and comparison handlers never return just their
\* header line).
C13_NoHeaderOnlyAnswer ==
    Answered =>
        \E n \in 1..Len(call.response) : call.response[n].t \notin {"header", "blank"}

\* the answer is that of the filter handler with filters applied
FiltersReported ==
    /\ Answered
    /\ call.question_type = "filter"
    /\ call.response[1].t = "filtered_results"

\* the filters listed in the "Filters applied" line
FiltersListed == call.response[3].filters

\* the cell is not null and satisfies the listed filter f
Satisfies(cell, f) ==
    /\ cell # NaN
    /\ IF f.kind = "=" THEN strip(lower(str(cell))) = f.val
       ELSE IF f.kind = ">" THEN cell.n * f.den > f.num
       ELSE cell.n * f.den < f.num

\* the record numbers (from 1) of the rows that satisfy every listed filter
RowsSatisfyingAll ==
    {i \in 1..Len(call.combined_df.rows) :
        \A j \in 1..Len(FiltersListed) :
            Satisfies(call.combined_df.rows[i][FiltersListed[j].col], FiltersListed[j])}

\* the record numbers the answer lists
RecordsListed ==
    {call.response[n].number : n \in {m \in 1..Len(call.response) : call.response[m].t = "record"}}

\* C14: when the filter handler applies filters, the result it reports is the
\* set of rows that satisfy every filter listed (the filters intersect), and
\* no row with a null in a filtered column is in it.
C14_FilteredRowsSatisfyAllFilters ==
    FiltersReported =>
        /\ FiltersListed # <<>>
        /\ call.response[1].count = Cardinality(RowsSatisfyingAll)
        /\ RecordsListed = RowsSatisfyingAll
        /\ \A i \in RecordsListed : \A j \in 1..Len(FiltersListed) :
                call.combined_df.rows[i][FiltersListed[j].col] # NaN

\* two filters applied, one of which a row fails by a null, the other by its
\* value
C14_Witness ==
    /\ FiltersReported
    /\ Len(FiltersListed) = 2
    /\ RecordsListed # {}
    /\ \E i \in 1..Len(call.combined_df.rows) :
            call.combined_df.rows[i][FiltersListed[2].col] = NaN
    /\ \E i \in 1..Len(call.combined_df.rows) :
            /\ call.combined_df.rows[i][FiltersListed[1].col] # NaN
            /\ ~Satisfies(call.combined_df.rows[i][FiltersListed[1].col], FiltersListed[1])

\* the answer lists rows by date: the most recent or the oldest
TrendListed(kind) ==
    /\ Answered
    /\ call.question_type = "trend"
    /\ \E n \in 1..Len(call.response) : call.response[n].t = kind

\* the date column the trend handler chooses and the date of row i in it,
\* null when the entry does not parse
ChosenDateColumn == date_columns(call.combined_df, call.combined_df.columns)[1]

DateOfRow(i) == to_datetime(call.combined_df.rows[i][ChosenDateColumn])

\* the rows whose date parses
DatedRows == {i \in 1..Len(call.combined_df.rows) : DateOfRow(i) # NaN}

\* the rows with one of the 10 latest, or of the 10 earliest, dates
LatestRows ==
    {i \in DatedRows :
        Cardinality({j \in DatedRows : earlier(DateOfRow(i), DateOfRow(j))}) < 10}

EarliestRows ==
    {i \in DatedRows :
        Cardinality({j \in DatedRows : earlier(DateOfRow(j), DateOfRow(i))}) < 10}

\* the rows the answer lists, by the id printed first in each line
RowsListed ==
    {i \in 1..Len(call.combined_df.rows) :
        \E n \in 1..Len(call.response) :
            /\ call.response[n].t = "trend_row"
            /\ call.response[n].info # <<>>
            /\ call.response[n].info[1] =
                    [col |-> <<"i","d">>, val |-> str(call.combined_df.rows[i][<<"i","d">>])]}

\* C15: the trend handler lists, for "recent", "latest" or "newest", the 10
\* rows with the latest dates and, for "oldest" or "earliest", the 10 rows
\* with the earliest dates (all rows when there are fewer than 10); a row
\* whose date does not parse takes the place of no row with a date.
C15_TrendListsRowsByDate ==
    /\ TrendListed("most_recent_records") =>
            /\ LatestRows \subseteq RowsListed
            /\ Cardinality(RowsListed) <= 10
    /\ TrendListed("oldest_records") =>
            /\ EarliestRows \subseteq RowsListed
            /\ Cardinality(RowsListed) <= 10

\* the columns for which the answer prints a statistics block, in the order
\* of the blocks
ColumnsWithStatistics ==
    LET blocks == SelectSeq(call.response, LAMBDA line : line.t = "statistics")
    IN  [n \in 1..Len(blocks) |-> blocks[n].col]

\* the numeric columns of the table and those of them the question names
NumericColumns ==
    SelectSeq(call.combined_df.columns, LAMBDA c : call.combined_df.dtype[c] \in NumericDtypes)

NumericColumnsAsked ==
    SelectSeq(WholeWordColumns(call.user_input, call.combined_df.columns),
              LAMBDA c : call.combined_df.dtype[c] \in NumericDtypes)

\* C16: the statistics handler analyses at most 5 columns: the numeric
\* columns the question names when there is one (5 of them at most), else
\* the first 5 numeric columns of the table; never a column that is not
\* numeric.  (Every column of the checked tables holds values, so each
\* analysed column has its block.)
C16_AtMostFiveColumnsAnalysed ==
    (Answered /\ call.question_type = "statistics") =>
        /\ Len(ColumnsWithStatistics) <= 5
        /\ ColumnsWithStatistics =
                IF NumericColumnsAsked # <<>> THEN Take(NumericColumnsAsked, 5)
                ELSE Take(NumericColumns, 5)
        /\ \A n \in 1..Len(ColumnsWithStatistics) :
                call.combined_df.dtype[ColumnsWithStatistics[n]] \in NumericDtypes

\* C17: each example question of the general help is classified as the intent
\* under which the help lists it.
C17_MenuExamplesClassifiedAsListed ==
    Answered =>
        \A i \in 1..Len(capability_menu) :
            call.raw_input = capability_menu[i].example =>
                call.question_type = capability_menu[i].intent

\* C18: no keyword is shadowed: a question that is exactly a keyword of a
\* category is classified as that category ("summary", "tell me about" and
\* "what is" as summary, summary and value).
C18_NoKeywordShadowed ==
    Answered =>
        \A i \in 1..Len(CategoryOrder) : \A k \in Range(CategoryOrder[i].words) :
            call.user_input = k => call.question_type = CategoryOrder[i].intent

\* the history a run of the conversation displays is not empty and starts
\* with the welcome message
WelcomeFirst ==
    \A role_hint \in RoleHints :
        LET shown == displayed_state(role_hint)[chat_key(role_hint)]
        IN  shown # <<>> /\ shown[1] = welcome_msg

\* every stored turn of the user is followed by one turn of the assistant,
\* which holds the answer to the input when there is one
EveryInputAnswered ==
    \A key \in DOMAIN session_state :
        LET history == session_state[key]
        IN  \A i \in 1..Len(history) :
                history[i].role = "user" =>
                    /\ i < Len(history)
                    /\ history[i + 1].role = "assistant"
                    /\ (i + 2 <= Len(history) => history[i + 2].role = "user")
                    /\ LET result == generate_response(history[i].content.text,
                                                       context_df, unmatching_df)
                       IN  ~result.raised =>
                                history[i + 1].content = [lines |-> result.response]

\* a click on Clear Chat empties the history of its conversation and leaves
\* the other histories as they are
ClearsOwnHistoryOnly ==
    \A role_hint \in RoleHints :
        ClearChat(role_hint) =>
            /\ session_state'[chat_key(role_hint)] = <<>>
            /\ \A key \in DOMAIN session_state \ {chat_key(role_hint)} :
                    session_state'[key] = session_state[key]

\* C19: in every sequence of renders, inputs and Clear Chat clicks, the
\* history displayed is not empty and starts with the welcome message, every
\* stored turn of the user is followed by exactly one turn of the assistant
\* with the answer to it, also when answering fails, and Clear Chat empties
\* the history of its own conversation only.
C19_ChatHistoryWellFormed ==
    [](WelcomeFirst /\ EveryInputAnswered) /\ [][ClearsOwnHistoryOnly]_vars

====
